---- MODULE Spec2Model ----
(***************************************************************************)
(* A model of the reconcile loop of the solr-collections-operator:         *)
(* SolrCollectionSetReconciler.Reconcile and the steps it calls            *)
(* (InitializeSolrCluster, UpdateStatus, ManageConfigSets,                 *)
(* ManageCollections, AdjustReplicas, RequeueOnError), the defaulting of   *)
(* api/v1, and the Solr cluster as the engine client's calls see it.       *)
(*                                                                         *)
(* One SolrCollectionSet named "foo" is reconciled.  A Go map is a TLA+    *)
(* function; the order in which a `range` walks a map is chosen with \E    *)
(* among the permutations of its keys.  A Go pointer field is a sequence:  *)
(* <<>> is nil and <<v>> points at v.                                      *)
(***************************************************************************)
EXTENDS Integers, Sequences, FiniteSets, TLC

VARIABLES
    object,      \* the SolrCollectionSet in Kubernetes: [exists, spec, status]
    configMaps,  \* the ConfigMaps labelled collectionSet=foo, as the List call returns them
    secretExists,\* whether the basic auth Secret can be read
    engine,      \* the Solr cluster: [collections, aliases, configsets, checksums]
    solrClient,  \* the package-level client: its zero value or [Url, Username, ...]
    pc,          \* where the reconcile pass in flight stands
    cs,          \* the pass's copy of the object (collectionSetSpec)
    snapshot,    \* the pass's clusterStatus: the cluster as InitializeSolrCluster read it
    pending,     \* a reconcile request is queued
    result,      \* what the last finished pass returned
    calls,       \* the engine calls of the pass in flight or last finished, in order
    events,      \* the events of the pass in flight or last finished, in order
    trace,       \* what the steps of the pass did (read by the properties)
    clock,       \* metav1.Now(), saturating
    budget,      \* [env, faults]: what is left of the outside changes and of the engine failures
    otherSet,    \* a second SolrCollectionSet on the cluster: [exists, spec, pc, snapshot, calls]
    reconciles,  \* the worker of each set in InitializeSolrCluster: [pc, sc, err, sent]
    pureIn,      \* an input of the pure functions
    pureOut      \* their results

vars == <<object, configMaps, secretExists, engine, solrClient, pc, cs, snapshot,
          pending, result, calls, events, trace, clock, budget, otherSet, reconciles,
          pureIn, pureOut>>

-----------------------------------------------------------------------------
(* Bounds of the model *)

\* the largest replication factor a user puts in the spec
MaxReplicationFactor == 3
\* how many changes come from outside the operator in one behaviour
MaxEnvSteps == 1
\* how many engine calls fail in one behaviour
MaxFaults == 1
\* the clock stops here
MaxClock == 2
\* the longest spec.collections of an input of the pure functions
MaxPureCollections == 2

-----------------------------------------------------------------------------
(* Constants of the program *)

DefaultSolrCollectionSetActive == TRUE
DefaultSolrCollectionSetCleanupEnabled == FALSE
DefaultSolrCollectionSetBlueGreenEnabled == TRUE
DefaultSolrCollectionReplicationFactor == 1

typeSolrCollectionSetStable == "Stable"
reasonSolrCollectionSetStable == "stable"
reasonSolrCollectionSetInitializing == "initializing"
reasonSolrCollectionSetScalingIn == "scalingIn"
reasonSolrCollectionSetScalingOut == "scalingOut"
reasonSolrCollectionAddingCollections == "addingCollections"
reasonSolrCollectionRemovingCollections == "removingCollections"
reasonSolrCollectionReplicationFactorMismatch == "replicationFactorMismatch"
reasonSolrCollectionSetReconcileError == "errorEncountered"

eventSolrCollectionSetInitializing == "Initializing"
eventSolrCollectionSetScaleOut == "ScaleOut"
eventSolrCollectionSetScaleIn == "ScaleIn"
eventSolrCollectionSetAddingCollection == "AddingCollection"
eventSolrCollectionSetRemovingCollection == "RemovingCollection"

configChecksumsConfigSetName == "_checksums"
backoffRequeueSeconds == 20

\* metadata.name of the one SolrCollectionSet
SetName == "foo"
\* fmt.Sprintf(configChecksumsCollectionNameTemplate, collectionSetSpec.Name)
checksumsCollectionName == "_" \o SetName \o "Checksums"

-----------------------------------------------------------------------------
(* Strings, maps, orders *)

\* strings.HasPrefix
HasPrefix(s, prefix) ==
    /\ Len(s) >= Len(prefix)
    /\ SubSeq(s, 1, Len(prefix)) = prefix

\* strings.TrimSuffix
TrimSuffix(s, suffix) ==
    IF Len(s) >= Len(suffix) /\ SubSeq(s, Len(s) - Len(suffix) + 1, Len(s)) = suffix
    THEN SubSeq(s, 1, Len(s) - Len(suffix))
    ELSE s

\* abs of an int32
abs(x) == IF x < 0 THEN -x ELSE x

\* make(map[...]...)
EmptyMap == [k \in {} |-> 0]

\* m[k] = v
Put(m, k, v) == [x \in (DOMAIN m) \cup {k} |-> IF x = k THEN v ELSE m[x]]

\* delete(m, k)
Remove(m, k) == [x \in (DOMAIN m) \ {k} |-> m[x]]

\* the orders in which a range statement may walk the keys S of a map
RECURSIVE Orders(_)
Orders(S) ==
    IF S = {} THEN {<<>>}
    ELSE UNION {{<<k>> \o o : o \in Orders(S \ {k})} : k \in S}

\* the elements of a sequence
Range(seq) == {seq[i] : i \in 1..Len(seq)}

\* a pointer: nil, or one to v
Nil == <<>>
Ptr(v) == <<v>>
Deref(p) == p[1]

-----------------------------------------------------------------------------
(* api/v1: defaulting *)

\* SolrCollectionSetSpec.withDefaults: the spec with its nil fields set, and whether one was
withDefaults(spec) ==
    LET s1 == IF spec.Active = Nil
              THEN [spec EXCEPT !.Active = Ptr(DefaultSolrCollectionSetActive)] ELSE spec
        s2 == IF s1.BlueGreenEnabled = Nil
              THEN [s1 EXCEPT !.BlueGreenEnabled = Ptr(DefaultSolrCollectionSetBlueGreenEnabled)] ELSE s1
        s3 == IF s2.CleanupEnabled = Nil
              THEN [s2 EXCEPT !.CleanupEnabled = Ptr(DefaultSolrCollectionSetCleanupEnabled)] ELSE s2
        s4 == IF s3.ReplicationFactor = Nil
              THEN [s3 EXCEPT !.ReplicationFactor = Ptr(DefaultSolrCollectionReplicationFactor)] ELSE s3
    IN  [changed |-> \/ spec.Active = Nil
                     \/ spec.BlueGreenEnabled = Nil
                     \/ spec.CleanupEnabled = Nil
                     \/ spec.ReplicationFactor = Nil,
         spec |-> s4]

\* a faulty variant of SetCollectionDefaults: configsetName defaults to the alias, which is
\* still empty when the configset name is filled in first
SetCollectionDefaults_FromAlias(spec) ==
    LET one(c) ==
            LET c1 == IF c.ConfigsetName = "" THEN [c EXCEPT !.ConfigsetName = c.Alias] ELSE c
            IN  IF c1.Alias = "" THEN [c1 EXCEPT !.Alias = c1.Name] ELSE c1
    IN  [changed |-> \E i \in 1..Len(spec.Collections) :
                        spec.Collections[i].ConfigsetName = "" \/ spec.Collections[i].Alias = "",
         spec |-> [spec EXCEPT !.Collections =
                        [i \in 1..Len(spec.Collections) |-> one(spec.Collections[i])]]]

\* SolrCollectionSet.SetCollectionDefaults: the receiver is a copy, but the slice it
\* writes through shares its array with the caller's, so the caller sees the writes
SetCollectionDefaults(spec) ==
    LET one(c) ==
            LET c1 == IF c.ConfigsetName = "" THEN [c EXCEPT !.ConfigsetName = c.Name] ELSE c
            IN  IF c1.Alias = "" THEN [c1 EXCEPT !.Alias = c1.Name] ELSE c1
    IN  [changed |-> \E i \in 1..Len(spec.Collections) :
                        spec.Collections[i].ConfigsetName = "" \/ spec.Collections[i].Alias = "",
         spec |-> [spec EXCEPT !.Collections =
                        [i \in 1..Len(spec.Collections) |-> one(spec.Collections[i])]]]

\* SolrCollectionSet.WithDefaults
WithDefaults(spec) ==
    LET changedDefaults == withDefaults(spec)
        changedCollections == SetCollectionDefaults(changedDefaults.spec)
    IN  [changed |-> changedDefaults.changed \/ changedCollections.changed,
         spec |-> changedCollections.spec]

-----------------------------------------------------------------------------
(* The desired instances *)

\* a faulty variant of mapCollections: the green instance is stored under the blue key
mapCollections_OneKey(specCollections, isBlueGreenEneabled) ==
    LET RECURSIVE fill(_, _)
        fill(i, storage) ==
            IF i > Len(specCollections) THEN storage
            ELSE LET spec == specCollections[i]
                 IN  IF isBlueGreenEneabled
                     THEN fill(i + 1, Put(Put(storage, spec.Name \o "_blue", spec),
                                          spec.Name \o "_blue", spec))
                     ELSE fill(i + 1, Put(storage, spec.Name, spec))
    IN  fill(1, EmptyMap)

\* mapCollections: the storage map it fills, from empty
mapCollections(specCollections, isBlueGreenEneabled) ==
    LET RECURSIVE fill(_, _)
        fill(i, storage) ==
            IF i > Len(specCollections) THEN storage
            ELSE LET spec == specCollections[i]
                 IN  IF isBlueGreenEneabled
                     THEN fill(i + 1, Put(Put(storage, spec.Name \o "_blue", spec),
                                          spec.Name \o "_green", spec))
                     ELSE fill(i + 1, Put(storage, spec.Name, spec))
    IN  fill(1, EmptyMap)

\* countSpecifiedCollections
countSpecifiedCollections(collections, isBlueGreenEnabled) ==
    LET multiplier == IF isBlueGreenEnabled THEN 2 ELSE 1
    IN  Len(collections) * multiplier

\* a faulty variant of countSolrCollections: the reserved collections are counted too
countSolrCollections_All(collections) == Cardinality(DOMAIN collections)

\* countSolrCollections: the collections whose name does not begin with "_"
countSolrCollections(collections) ==
    Cardinality({k \in DOMAIN collections : ~HasPrefix(collections[k].Name, "_")})

-----------------------------------------------------------------------------
(* Conditions *)

\* metav1.Condition; LastTransitionTime 0 is the zero time
Condition(type, status, reason, message) ==
    [Type |-> type, Status |-> status, Reason |-> reason, Message |-> message,
     LastTransitionTime |-> 0]

\* meta.SetStatusCondition (k8s.io/apimachinery), as the operator calls it
SetStatusCondition(conditions, newCondition, now) ==
    LET found == {i \in 1..Len(conditions) : conditions[i].Type = newCondition.Type}
    IN  IF found = {}
        THEN Append(conditions,
                    IF newCondition.LastTransitionTime = 0
                    THEN [newCondition EXCEPT !.LastTransitionTime = now]
                    ELSE newCondition)
        ELSE LET i == CHOOSE j \in found : \A k \in found : j <= k
                 existingCondition == conditions[i]
                 transition ==
                     IF existingCondition.Status = newCondition.Status
                     THEN existingCondition.LastTransitionTime
                     ELSE IF newCondition.LastTransitionTime # 0
                          THEN newCondition.LastTransitionTime
                          ELSE now
             IN  [conditions EXCEPT ![i] =
                     [Type |-> existingCondition.Type,
                      Status |-> newCondition.Status,
                      Reason |-> newCondition.Reason,
                      Message |-> newCondition.Message,
                      LastTransitionTime |-> transition]]

\* conditionsEqual
conditionsEqual(c1, c2) ==
    c1.Type = c2.Type /\ c1.Status = c2.Status /\ c1.Message = c2.Message /\ c1.Reason = c2.Reason

-----------------------------------------------------------------------------
(* The status report *)

\* the zero value of SolrCollectionSetStatus
ZeroStatus ==
    [Conditions |-> <<>>, ReplicationFactor |-> 0, ReadyRatio |-> "", ScaleStatus |-> "",
     SolrCollections |-> <<>>]

\* fmt.Sprintf("%d/%d", a, b)
Ratio(a, b) == ToString(a) \o "/" \o ToString(b)

\* newSolrSectionStatus
newSolrSectionStatus(collectionSpec, instanceName) ==
    [Name |-> collectionSpec.Name,
     InstanceName |-> instanceName,
     ConfigSet |-> collectionSpec.ConfigsetName,
     ReplicationFactor |-> 0,
     Exists |-> FALSE,
     Active |-> FALSE,
     ReplicaCount |-> 0,
     BlueGreen |-> instanceName # "",
     ReplicationStatus |-> "--"]

\* the reverse map collection -> alias that a range over the aliases in this order builds
reverseAliases(aliases, aliasOrder) ==
    LET RECURSIVE fill(_, _)
        fill(i, m) ==
            IF i > Len(aliasOrder) THEN m
            ELSE fill(i + 1, Put(m, aliases[aliasOrder[i]], aliasOrder[i]))
    IN  fill(1, EmptyMap)

\* populateCollectionSetStatus, lines 420-435: one status entry per specified instance
seedCollectionStatusMap(spec) ==
    LET RECURSIVE fill(_, _)
        fill(i, m) ==
            IF i > Len(spec.Collections) THEN m
            ELSE LET collectionSpec == spec.Collections[i]
                     collectionName == collectionSpec.Name
                 IN  IF Deref(spec.BlueGreenEnabled)
                     THEN fill(i + 1,
                               Put(Put(m, collectionName \o "_blue",
                                       newSolrSectionStatus(collectionSpec, collectionName \o "_blue")),
                                   collectionName \o "_green",
                                   newSolrSectionStatus(collectionSpec, collectionName \o "_green")))
                     ELSE fill(i + 1, Put(m, collectionName, newSolrSectionStatus(collectionSpec, "")))
    IN  fill(1, EmptyMap)

\* populateCollectionSetStatus, lines 383-406: the counts, and what they say
overallStatus(spec, collections) ==
    LET specifiedCollectionCount ==
            countSpecifiedCollections(spec.Collections, Deref(spec.BlueGreenEnabled))
        solrCollectionsCount == countSolrCollections(collections)
        diff == abs(specifiedCollectionCount - solrCollectionsCount)
        number == IF Deref(spec.BlueGreenEnabled) THEN diff \div 2 ELSE diff
    IN  [specified |-> specifiedCollectionCount,
         solr |-> solrCollectionsCount,
         isStable |-> specifiedCollectionCount = solrCollectionsCount,
         unstableReason |->
             IF specifiedCollectionCount > solrCollectionsCount
             THEN reasonSolrCollectionAddingCollections
             ELSE IF specifiedCollectionCount < solrCollectionsCount
                  THEN reasonSolrCollectionRemovingCollections
                  ELSE "",
         events |->
             IF specifiedCollectionCount > solrCollectionsCount
             THEN Put(EmptyMap, eventSolrCollectionSetAddingCollection,
                      "adding [" \o ToString(number) \o "] collections")
             ELSE IF specifiedCollectionCount < solrCollectionsCount
                  THEN Put(EmptyMap, eventSolrCollectionSetRemovingCollection,
                           "removing [" \o ToString(number) \o "] collections")
                  ELSE EmptyMap]

\* populateCollectionSetStatus, lines 437-494: the walk over the cluster's collections,
\* in the order the range takes
walkCollections(spec, clusterStatus, order, start) ==
    LET collectionSetReplicationFactor == Deref(spec.ReplicationFactor)
        collectionsToAliasesMap ==
            \* only the keys are read here, and they do not depend on the order
            reverseAliases(clusterStatus.Aliases,
                           CHOOSE o \in Orders(DOMAIN clusterStatus.Aliases) : TRUE)
        RECURSIVE walk(_, _)
        walk(i, acc) ==
            IF i > Len(order) THEN acc
            ELSE
              LET name == order[i]
                  collection == clusterStatus.Collections[name]
              IN
              IF HasPrefix(collection.Name, "_") THEN walk(i + 1, acc)
              ELSE
                LET collectionName == TrimSuffix(name, "_green")
                    isActive ==
                        IF Deref(spec.BlueGreenEnabled)
                        THEN collectionName \in DOMAIN collectionsToAliasesMap
                        ELSE TRUE
                    mismatch == collectionSetReplicationFactor # collection.ReplicationFactor
                    scalingOut == collection.ReplicaCount < collection.ReplicationFactor
                    scalingIn == collection.ReplicaCount > collection.ReplicationFactor
                    replicationStatus == Ratio(collection.ReplicaCount, collection.ReplicationFactor)
                    reason1 == IF mismatch THEN reasonSolrCollectionReplicationFactorMismatch
                               ELSE acc.unstableReason
                    reason2 == IF scalingOut THEN reasonSolrCollectionSetScalingOut
                               ELSE IF scalingIn THEN reasonSolrCollectionSetScalingIn
                               ELSE reason1
                    scaleMsg == "from [" \o ToString(collection.ReplicaCount) \o "] replicas to ["
                                    \o ToString(collection.ReplicationFactor) \o "]"
                    events2 == IF scalingOut
                               THEN Put(acc.events, eventSolrCollectionSetScaleOut,
                                        "scaling out " \o scaleMsg)
                               ELSE IF scalingIn
                               THEN Put(acc.events, eventSolrCollectionSetScaleIn,
                                        "scaling in " \o scaleMsg)
                               ELSE acc.events
                    map2 == IF name \in DOMAIN acc.collectionStatusMap
                            THEN [acc.collectionStatusMap EXCEPT ![name] =
                                     [@ EXCEPT !.ReplicationFactor = collection.ReplicationFactor,
                                               !.ReplicaCount = collection.ReplicaCount,
                                               !.ReplicationStatus = replicationStatus,
                                               !.Active = isActive,
                                               !.Exists = TRUE]]
                            ELSE acc.collectionStatusMap
                IN  walk(i + 1,
                         [isStable |-> acc.isStable /\ ~mismatch /\ ~scalingOut /\ ~scalingIn,
                          unstableReason |-> reason2,
                          events |-> events2,
                          collectionStatusMap |-> map2])
    IN  walk(1, start)

\* populateCollectionSetStatus, lines 510-529: the Stable condition
stableCondition(isStable, unstableReason) ==
    IF isStable
    THEN Condition(typeSolrCollectionSetStable, "True", reasonSolrCollectionSetStable, "")
    ELSE Condition(typeSolrCollectionSetStable, "False", unstableReason,
                   "Spec and cluster status are not aligned")

\* populateCollectionSetStatus, lines 502-563: the new conditions from the existing ones
newConditionsOf(existing, condition, now) ==
    LET other == SelectSeq(existing, LAMBDA c : c.Type # condition.Type)
        same == {i \in 1..Len(existing) : existing[i].Type = condition.Type}
    IN  IF same # {} /\ conditionsEqual(condition, existing[CHOOSE i \in same : \A j \in same : j <= i])
        THEN SetStatusCondition(other, existing[CHOOSE i \in same : \A j \in same : j <= i], now)
        ELSE SetStatusCondition(other, condition, now)

\* populateCollectionSetStatus: the new status and the events, for one order of the range
\* over the cluster's collections and one order of the range over the status map
populateCollectionSetStatus(collectionSet, clusterStatus, order, statusOrder, now) ==
    LET spec == collectionSet.spec
        listed(overall, walked) ==
            [status |->
                [Conditions |->
                    newConditionsOf(collectionSet.status.Conditions,
                                    stableCondition(walked.isStable, walked.unstableReason),
                                    now),
                 ReplicationFactor |-> Deref(spec.ReplicationFactor),
                 ReadyRatio |-> Ratio(overall.solr, overall.specified),
                 ScaleStatus |-> "",
                 SolrCollections |->
                    [i \in 1..Len(statusOrder) |-> walked.collectionStatusMap[statusOrder[i]]]],
             events |-> walked.events]
        counted(overall) ==
            listed(overall,
                   walkCollections(spec, clusterStatus, order,
                                   [isStable |-> overall.isStable,
                                    unstableReason |-> overall.unstableReason,
                                    events |-> overall.events,
                                    collectionStatusMap |-> seedCollectionStatusMap(spec)]))
    IN  counted(overallStatus(spec, clusterStatus.Collections))

-----------------------------------------------------------------------------
(* The Solr cluster, as the calls of SolrClient see it *)

\* solr.Collection
Collection(name, replicationFactor, replicaCount, configName) ==
    [Name |-> name, ReplicationFactor |-> replicationFactor, ReplicaCount |-> replicaCount,
     ConfigName |-> configName]

\* one call of the client: the operation, the object it names, a second name and a count
Call(op, name, target, n) ==
    [op |-> op, name |-> name, target |-> target, n |-> n, sum |-> "", res |-> ""]

\* the calls that change the cluster
MutatingOps ==
    {"UploadConfigSet", "DeleteConfigSet", "CreateCollection", "DeleteCollection",
     "SetReplicationFactor", "AddReplicas", "RemoveReplicas", "AssignAlias", "DeleteAlias",
     "WriteRecord"}

\* the collections an alias with a target t pins
Aliased(e, t) == \E a \in DOMAIN e.aliases : e.aliases[a] = t

\* what the cluster answers to a call that reaches it, and what it is afterwards
EngineApply(e, c) ==
    CASE c.op \in {"GetClusterStatus", "GetConfigSets"} ->
            [ok |-> TRUE, engine |-> e]
      [] c.op = "Query" ->
            [ok |-> c.name \in DOMAIN e.collections, engine |-> e]
      [] c.op = "WriteRecord" ->
            IF c.name \in DOMAIN e.collections
            THEN [ok |-> TRUE, engine |-> [e EXCEPT !.checksums = Put(@, c.target, c.sum)]]
            ELSE [ok |-> FALSE, engine |-> e]
      [] c.op = "UploadConfigSet" ->
            [ok |-> TRUE, engine |-> [e EXCEPT !.configsets = @ \cup {c.name}]]
      [] c.op = "DeleteConfigSet" ->
            IF c.name \in e.configsets
               /\ \A k \in DOMAIN e.collections : e.collections[k].ConfigName # c.name
            THEN [ok |-> TRUE, engine |-> [e EXCEPT !.configsets = @ \ {c.name}]]
            ELSE [ok |-> FALSE, engine |-> e]
      [] c.op = "CreateCollection" ->
            IF c.name \notin DOMAIN e.collections /\ c.name \notin DOMAIN e.aliases
               /\ c.target \in e.configsets
            THEN [ok |-> TRUE,
                  engine |-> [e EXCEPT !.collections =
                                 Put(@, c.name, Collection(c.name, c.n, c.n, c.target))]]
            ELSE [ok |-> FALSE, engine |-> e]
      [] c.op = "DeleteCollection" ->
            IF c.name \in DOMAIN e.collections /\ ~Aliased(e, c.name)
            THEN [ok |-> TRUE,
                  engine |-> [e EXCEPT !.collections = Remove(@, c.name),
                                       !.checksums = IF c.name = checksumsCollectionName
                                                     THEN EmptyMap ELSE @]]
            ELSE [ok |-> FALSE, engine |-> e]
      [] c.op = "SetReplicationFactor" ->
            IF c.name \in DOMAIN e.collections
            THEN [ok |-> TRUE, engine |-> [e EXCEPT !.collections[c.name].ReplicationFactor = c.n]]
            ELSE [ok |-> FALSE, engine |-> e]
      [] c.op = "AddReplicas" ->
            IF c.name \in DOMAIN e.collections
            THEN [ok |-> TRUE, engine |-> [e EXCEPT !.collections[c.name].ReplicaCount = @ + c.n]]
            ELSE [ok |-> FALSE, engine |-> e]
      [] c.op = "RemoveReplicas" ->
            IF c.name \in DOMAIN e.collections /\ e.collections[c.name].ReplicaCount > c.n
            THEN [ok |-> TRUE, engine |-> [e EXCEPT !.collections[c.name].ReplicaCount = @ - c.n]]
            ELSE [ok |-> FALSE, engine |-> e]
      [] c.op = "AssignAlias" ->
            IF c.target \in DOMAIN e.collections
            THEN [ok |-> TRUE, engine |-> [e EXCEPT !.aliases = Put(@, c.name, c.target)]]
            ELSE [ok |-> FALSE, engine |-> e]
      [] c.op = "DeleteAlias" ->
            [ok |-> TRUE, engine |-> [e EXCEPT !.aliases = Remove(@, c.name)]]

\* SolrClient.GetClusterStatus: the projection of the cluster status response
GetClusterStatus(e) == [Collections |-> e.collections, Aliases |-> e.aliases]

\* The run of one step of a pass: the cluster so far, the calls so far, how many calls
\* the step has made, and how many of them failed for a reason of the cluster's own
\* (a non-2xx answer that its state does not explain).
Run(e, log) == [engine |-> e, calls |-> log, n |-> 0, faults |-> 0, ok |-> TRUE, res |-> "ok"]

\* SolrClient.AddReplicas, lines 254-274: the answer to a failed call is the
\* insufficient-capacity signal when its message holds "Not enough eligible nodes"
AddReplicasAnswer(notEnoughNodes) == IF notEnoughNodes THEN "backpressure" ELSE "error"

\* one call: it fails when it is one of the step's calls chosen to fail (faultAt), else
\* the cluster decides; notEnoughNodes says what a failed AddReplicas is answered with
Issue(run, c, faultAt, notEnoughNodes) ==
    LET answered(faulted, r) ==
            LET res == IF r.ok THEN "ok"
                       ELSE IF c.op = "AddReplicas"
                            THEN AddReplicasAnswer(faulted /\ notEnoughNodes)
                            ELSE "error"
            IN  [engine |-> r.engine,
                 calls |-> Append(run.calls, [c EXCEPT !.res = res]),
                 n |-> run.n + 1,
                 faults |-> run.faults + (IF faulted THEN 1 ELSE 0),
                 ok |-> r.ok,
                 res |-> res]
    IN  answered((run.n + 1) \in faultAt,
                 IF (run.n + 1) \in faultAt
                 THEN [ok |-> FALSE, engine |-> run.engine]
                 ELSE EngineApply(run.engine, c))

-----------------------------------------------------------------------------
(* ManageConfigSets *)

\* base64.StdEncoding.DecodeString on the blobs of the model: "QUJD" and "eHl6" are
\* base64, "!!" is not
DecodeString(data) ==
    CASE data = "QUJD" -> [ok |-> TRUE, bytes |-> "ABC"]
      [] data = "eHl6" -> [ok |-> TRUE, bytes |-> "xyz"]
      [] OTHER -> [ok |-> FALSE, bytes |-> ""]

\* checksum: the hex md5 of the string, on the strings of the model
checksum(data) ==
    CASE data = "QUJD" -> "3300afa7df5ae2c0ead5892c9ac4c4cb"
      [] data = "eHl6" -> "94fffe64fa86abffdd98b52a6994a691"
      [] data = "!!" -> "ef9fcdb53e4e10b12bfcd5e9e78135dc"
      [] data = "ABC" -> "902fbdd2b1df0c4f70b4a5d23525e932"
      [] data = "xyz" -> "d16fb36f0911f878998c136191af705e"
      [] OTHER -> "d41d8cd98f00b204e9800998ecf8427e"

\* corev1.ConfigMap: its name, its labels, its data["configset"]
ConfigMap(name, labels, configset) == [Name |-> name, Labels |-> labels, configset |-> configset]

\* ManageConfigSets, lines 685-693: the config maps by their collection label
configMapsByLabel(configMapList) ==
    LET RECURSIVE fill(_, _)
        fill(i, m) ==
            IF i > Len(configMapList) THEN [ok |-> TRUE, configMaps |-> m, name |-> ""]
            ELSE LET cm == configMapList[i]
                 IN  IF "collection" \notin DOMAIN cm.Labels
                     THEN [ok |-> FALSE, configMaps |-> m, name |-> cm.Name]
                     ELSE fill(i + 1, Put(m, cm.Labels["collection"], cm))
    IN  fill(1, EmptyMap)

\* a faulty variant of configMapsToUpload: a config set the cluster holds is queued only
\* when a record of it is stored and differs
configMapsToUpload_RecordNeeded(configMapsIn, solrConfigSets, configSetChecksums) ==
    LET queued(name) ==
            IF name \notin solrConfigSets THEN TRUE
            ELSE LET specChecksum == checksum(configMapsIn[name].configset)
                 IN  IF name \notin DOMAIN configSetChecksums THEN FALSE
                     ELSE specChecksum # configSetChecksums[name]
    IN  [name \in {k \in DOMAIN configMapsIn : queued(k)} |-> configMapsIn[name]]

\* a faulty variant of configMapsToUpload: every config map is queued
configMapsToUpload_Always(configMapsIn, solrConfigSets, configSetChecksums) ==
    [name \in DOMAIN configMapsIn |-> configMapsIn[name]]

\* ManageConfigSets, lines 709-739: the config maps to upload
configMapsToUpload(configMapsIn, solrConfigSets, configSetChecksums) ==
    LET queued(name) ==
            IF name \notin solrConfigSets THEN TRUE
            ELSE LET specChecksum == checksum(configMapsIn[name].configset)
                 IN  IF name \notin DOMAIN configSetChecksums THEN TRUE
                     ELSE specChecksum # configSetChecksums[name]
    IN  [name \in {k \in DOMAIN configMapsIn : queued(k)} |-> configMapsIn[name]]

\* a faulty variant of configMapsToRemove: the config sets without a source are removed
\* whether or not cleanup is enabled
configMapsToRemove_Ungated(cleanupEnabled, configMapsIn, solrConfigSets) ==
    {name \in solrConfigSets : name \notin DOMAIN configMapsIn /\ ~HasPrefix(name, "_")}

\* ManageConfigSets, lines 741-750: the config sets to remove
configMapsToRemove(cleanupEnabled, configMapsIn, solrConfigSets) ==
    IF cleanupEnabled
    THEN {name \in solrConfigSets : name \notin DOMAIN configMapsIn /\ ~HasPrefix(name, "_")}
    ELSE {}

\* a faulty variant of checksumRecord: the record holds the checksum of the decoded bytes
checksumRecord_OfDecoded(collection, configsetEncoded) ==
    [collection |-> collection, checksum |-> checksum(DecodeString(configsetEncoded).bytes)]

\* ManageConfigSets, lines 763-767: the record written after an upload
checksumRecord(collection, configsetEncoded) ==
    [collection |-> collection, checksum |-> checksum(configsetEncoded)]

\* ManageConfigSets, lines 752-772: the uploads, in the order the range takes
processUploads(run0, uploads, uploadOrder, checksumCollectionName, faultAt) ==
    LET RECURSIVE go(_, _)
        go(i, run) ==
            LET collection == uploadOrder[i]
                written(wr) ==
                    IF ~wr.ok
                    THEN [run |-> wr,
                          err |-> "could not write checksum for collection " \o collection]
                    ELSE go(i + 1, wr)
                uploaded(up, record) ==
                    IF ~up.ok
                    THEN [run |-> up, err |-> "could not upload configset " \o collection]
                    ELSE written(Issue(up,
                                       [Call("WriteRecord", checksumCollectionName,
                                             record.collection, 0)
                                          EXCEPT !.sum = record.checksum],
                                       faultAt, FALSE))
            IN  IF i > Len(uploadOrder) THEN [run |-> run, err |-> ""]
                ELSE IF ~DecodeString(uploads[collection].configset).ok
                THEN [run |-> run, err |-> "could not base64 decode 'configset' property"]
                ELSE uploaded(Issue(run, Call("UploadConfigSet", collection, "", 0),
                                    faultAt, FALSE),
                              checksumRecord(collection, uploads[collection].configset))
    IN  go(1, run0)

\* ManageConfigSets, lines 774-780: the removes, in the order the range takes
processRemoves(run0, removeOrder, faultAt) ==
    LET RECURSIVE go(_, _)
        go(i, run) ==
            LET removed(rm) ==
                    IF ~rm.ok
                    THEN [run |-> rm,
                          err |-> "could not clean up config set [" \o removeOrder[i] \o "]"]
                    ELSE go(i + 1, rm)
            IN  IF i > Len(removeOrder) THEN [run |-> run, err |-> ""]
                ELSE removed(Issue(run, Call("DeleteConfigSet", removeOrder[i], "", 0),
                                   faultAt, FALSE))
    IN  go(1, run0)

\* ManageConfigSets, lines 668-739: what it reads, and the two queues it builds from it
configSetPlan(spec, e, configMapList, checksumCollectionName, log, faultAt) ==
    LET none == [uploads |-> EmptyMap, removes |-> {}]
        queried(query, byLabel) ==
            IF ~query.ok
            THEN [run |-> query, err |-> "query to collection failed"] @@ none
            ELSE [run |-> query, err |-> "",
                  uploads |-> configMapsToUpload(byLabel.configMaps, e.configsets, e.checksums),
                  removes |-> configMapsToRemove(Deref(spec.CleanupEnabled), byLabel.configMaps,
                                                 e.configsets)]
        listed(got, byLabel) ==
            IF ~got.ok THEN [run |-> got, err |-> "could not get configsets"] @@ none
            ELSE IF ~byLabel.ok
            THEN [run |-> got,
                  err |-> "config set configmap " \o byLabel.name
                            \o " has no 'collection' label"] @@ none
            ELSE queried(Issue(got, Call("Query", checksumCollectionName, "*:*", 0),
                               faultAt, FALSE),
                         byLabel)
    IN  listed(Issue(Run(e, log), Call("GetConfigSets", "", "", 0), faultAt, FALSE),
               configMapsByLabel(configMapList))

\* ManageConfigSets: the run and the error it returns ("" is nil), for one order of
\* each of its two ranges
ManageConfigSets(plan, uploadOrder, removeOrder, checksumCollectionName, faultAt) ==
    LET uploaded(up) ==
            IF up.err # "" THEN up ELSE processRemoves(up.run, removeOrder, faultAt)
    IN  IF plan.err # "" THEN [run |-> plan.run, err |-> plan.err]
        ELSE uploaded(processUploads(plan.run, plan.uploads, uploadOrder,
                                     checksumCollectionName, faultAt))

-----------------------------------------------------------------------------
(* ManageCollections *)

\* ManageCollections, lines 817-824: the specified instances the cluster lacks
createCollectionsMap(specCollectionsMap, solrCollections) ==
    [collectionName \in {k \in DOMAIN specCollectionsMap : k \notin DOMAIN solrCollections}
        |-> specCollectionsMap[collectionName]]

\* a faulty variant of deleteCollectionsMap: collections are queued for removal whether or not
\* cleanup is on
deleteCollectionsMap_NoGate(isCleanupEnabled, specCollectionsMap, solrCollections) ==
    {collectionName \in DOMAIN solrCollections :
        collectionName \notin DOMAIN specCollectionsMap /\ ~HasPrefix(collectionName, "_")}

\* ManageCollections, lines 826-843: the keys of deleteCollectionsMap
deleteCollectionsMap(isCleanupEnabled, specCollectionsMap, solrCollections) ==
    IF isCleanupEnabled
    THEN {collectionName \in DOMAIN solrCollections :
            collectionName \notin DOMAIN specCollectionsMap /\ ~HasPrefix(collectionName, "_")}
    ELSE {}

\* ManageCollections, lines 835-840: deleteAliasesMap, keyed by the collection's name
deleteAliasesMap(deleteCollections, collectionsToAliasesMap) ==
    [collectionName \in {k \in deleteCollections : k \in DOMAIN collectionsToAliasesMap}
        |-> collectionsToAliasesMap[collectionName]]

\* ManageCollections, lines 845-856: the keys of adjustReplicationFactorMap
adjustReplicationFactorMap(replicationFactor, specCollectionsMap, solrCollections) ==
    {collectionName \in DOMAIN solrCollections :
        /\ collectionName \in DOMAIN specCollectionsMap
        /\ solrCollections[collectionName].ReplicationFactor # replicationFactor}

\* a faulty variant of processCreates: the alias is looked up in the cluster as the pass
\* has left it so far, so that only the first create of a pair assigns it
processCreates_LiveAliases(run0, creates, createOrder, spec, aliases, faultAt) ==
    LET RECURSIVE go(_, _)
        go(i, run) ==
            LET collectionName == createOrder[i]
                collectionSpec == creates[collectionName]
                aliased(created) ==
                    IF Deref(spec.BlueGreenEnabled)
                       /\ collectionSpec.Alias \notin DOMAIN created.engine.aliases
                    THEN go(i + 1, Issue(created,
                                         Call("AssignAlias", collectionSpec.Alias,
                                              collectionName, 0),
                                         faultAt, FALSE))
                    ELSE go(i + 1, created)
            IN  IF i > Len(createOrder) THEN run
                ELSE aliased(Issue(run,
                                   Call("CreateCollection", collectionName,
                                        collectionSpec.ConfigsetName,
                                        Deref(spec.ReplicationFactor)),
                                   faultAt, FALSE))
    IN  go(1, run0)

\* ManageCollections, lines 858-878: the creates, each with its alias
processCreates(run0, creates, createOrder, spec, aliases, faultAt) ==
    LET RECURSIVE go(_, _)
        go(i, run) ==
            LET collectionName == createOrder[i]
                collectionSpec == creates[collectionName]
                aliased(created) ==
                    IF Deref(spec.BlueGreenEnabled) /\ collectionSpec.Alias \notin DOMAIN aliases
                    THEN go(i + 1, Issue(created,
                                         Call("AssignAlias", collectionSpec.Alias,
                                              collectionName, 0),
                                         faultAt, FALSE))
                    ELSE go(i + 1, created)
            IN  IF i > Len(createOrder) THEN run
                ELSE aliased(Issue(run,
                                   Call("CreateCollection", collectionName,
                                        collectionSpec.ConfigsetName,
                                        Deref(spec.ReplicationFactor)),
                                   faultAt, FALSE))
    IN  go(1, run0)

\* ManageCollections, lines 880-914: one call per key of a queue, none ends the loop
processKeys(run0, op, keyOrder, n, faultAt) ==
    LET RECURSIVE go(_, _)
        go(i, run) ==
            IF i > Len(keyOrder) THEN run
            ELSE go(i + 1, Issue(run, Call(op, keyOrder[i], "", n), faultAt, FALSE))
    IN  go(1, run0)

\* ManageCollections, lines 794-856: the four queues
collectionPlan(spec, solrCollections, aliases, aliasOrder) ==
    LET specCollectionsMap == mapCollections(spec.Collections, Deref(spec.BlueGreenEnabled))
        collectionsToAliasesMap == reverseAliases(aliases, aliasOrder)
        deletes == deleteCollectionsMap(Deref(spec.CleanupEnabled), specCollectionsMap,
                                        solrCollections)
    IN  [creates |-> createCollectionsMap(specCollectionsMap, solrCollections),
         deleteAliases |-> deleteAliasesMap(deletes, collectionsToAliasesMap),
         deletes |-> deletes,
         adjust |-> adjustReplicationFactorMap(Deref(spec.ReplicationFactor), specCollectionsMap,
                                               solrCollections)]

\* a faulty variant of ManageCollections: the collections are deleted before the aliases
ManageCollections_DeletesFirst(run0, spec, aliases, plan, createOrder, aliasKeyOrder, deleteOrder, adjustOrder, faultAt) ==
    LET r1 == processCreates(run0, plan.creates, createOrder, spec, aliases, faultAt)
        r2 == processKeys(r1, "DeleteCollection", deleteOrder, 0, faultAt)
        r3 == processKeys(r2, "DeleteAlias", aliasKeyOrder, 0, faultAt)
        r4 == processKeys(r3, "SetReplicationFactor", adjustOrder,
                          Deref(spec.ReplicationFactor), faultAt)
    IN  [run |-> r4,
         changed |-> \/ DOMAIN plan.creates # {}
                     \/ DOMAIN plan.deleteAliases # {}
                     \/ plan.deletes # {}
                     \/ plan.adjust # {}]

\* a faulty variant of ManageCollections: a queued replication-factor adjustment is not
\* reported as a change
ManageCollections_AdjustUnreported(run0, spec, aliases, plan, createOrder, aliasKeyOrder, deleteOrder, adjustOrder, faultAt) ==
    LET r1 == processCreates(run0, plan.creates, createOrder, spec, aliases, faultAt)
        r2 == processKeys(r1, "DeleteAlias", aliasKeyOrder, 0, faultAt)
        r3 == processKeys(r2, "DeleteCollection", deleteOrder, 0, faultAt)
        r4 == processKeys(r3, "SetReplicationFactor", adjustOrder,
                          Deref(spec.ReplicationFactor), faultAt)
    IN  [run |-> r4,
         changed |-> \/ DOMAIN plan.creates # {}
                     \/ DOMAIN plan.deleteAliases # {}
                     \/ plan.deletes # {}]

\* ManageCollections: the run and whether it reports a change, for one order of each
\* of its ranges
ManageCollections(run0, spec, aliases, plan, createOrder, aliasKeyOrder, deleteOrder, adjustOrder, faultAt) ==
    LET r1 == processCreates(run0, plan.creates, createOrder, spec, aliases, faultAt)
        r2 == processKeys(r1, "DeleteAlias", aliasKeyOrder, 0, faultAt)
        r3 == processKeys(r2, "DeleteCollection", deleteOrder, 0, faultAt)
        r4 == processKeys(r3, "SetReplicationFactor", adjustOrder,
                          Deref(spec.ReplicationFactor), faultAt)
    IN  [run |-> r4,
         changed |-> \/ DOMAIN plan.creates # {}
                     \/ DOMAIN plan.deleteAliases # {}
                     \/ plan.deletes # {}
                     \/ plan.adjust # {}]

-----------------------------------------------------------------------------
(* AdjustReplicas *)

\* A faulty variant of adjustReplicas: the difference is taken against the replication
\* factor the cluster reports, not against the replica count
adjustReplicas_FromFactor(spec, solrCollections) ==
    LET specCollectionsMap == mapCollections(spec.Collections, Deref(spec.BlueGreenEnabled))
    IN  [collectionName \in
            {k \in DOMAIN specCollectionsMap :
                /\ k \in DOMAIN solrCollections
                /\ Deref(spec.ReplicationFactor) - solrCollections[k].ReplicationFactor # 0}
         |-> [CurrentCount |-> solrCollections[collectionName].ReplicaCount,
              TargetCount |-> Deref(spec.ReplicationFactor)]]

\* AdjustReplicas, lines 605-636: the adjustments queued
adjustReplicas(spec, solrCollections) ==
    LET specCollectionsMap == mapCollections(spec.Collections, Deref(spec.BlueGreenEnabled))
    IN  [collectionName \in
            {k \in DOMAIN specCollectionsMap :
                /\ k \in DOMAIN solrCollections
                /\ Deref(spec.ReplicationFactor) - solrCollections[k].ReplicaCount # 0}
         |-> [CurrentCount |-> solrCollections[collectionName].ReplicaCount,
              TargetCount |-> Deref(spec.ReplicationFactor)]]

\* SolrClient.AddReplicas: what it returns for the cluster's answer
AddReplicas(collectionName, res) ==
    CASE res = "ok" -> [isScaling |-> FALSE, err |-> ""]
      [] res = "backpressure" ->
            [isScaling |-> TRUE,
             err |-> "add replicas failed for collection [" \o collectionName
                        \o "] because there aren't enough nodes"]
      [] OTHER ->
            [isScaling |-> FALSE,
             err |-> "add replicas failed for collection [" \o collectionName \o "]"]

\* AdjustReplicas, lines 638-656: the walk over the adjustments, in the order the range
\* takes; it returns the run, isScaling and the error ("" is nil)
AdjustReplicas(run0, adjustments, order, faultAt, notEnoughNodes) ==
    LET RECURSIVE go(_, _)
        go(i, run) ==
            LET collection == order[i]
                diff == adjustments[collection].TargetCount - adjustments[collection].CurrentCount
                added(r, ret) ==
                    IF ret.err # "" THEN [run |-> r, isScaling |-> FALSE, err |-> ret.err]
                    ELSE IF ret.isScaling THEN [run |-> r, isScaling |-> TRUE, err |-> ""]
                    ELSE go(i + 1, r)
                answered(r) == added(r, AddReplicas(collection, r.res))
                removed(r) ==
                    IF ~r.ok
                    THEN [run |-> r, isScaling |-> FALSE,
                          err |-> "remove replicas failed on collection " \o collection]
                    ELSE go(i + 1, r)
            IN  IF i > Len(order) THEN [run |-> run, isScaling |-> FALSE, err |-> ""]
                ELSE IF diff > 0
                THEN answered(Issue(run, Call("AddReplicas", collection, "", diff),
                                    faultAt, notEnoughNodes))
                ELSE removed(Issue(run, Call("RemoveReplicas", collection, "", abs(diff)),
                                   faultAt, FALSE))
    IN  go(1, run0)

-----------------------------------------------------------------------------
(* The results of a pass, and the error exit *)

\* requeue: reconcile.Result{}; RequeueAfter is in milliseconds
requeue == [RequeueAfter |-> 0]

\* requeueImmediately
requeueImmediately == [RequeueAfter |-> 1]

\* requeueWithBackoff
requeueWithBackoff == [RequeueAfter |-> backoffRequeueSeconds * 1000]

\* RequeueOnError: the status it leaves in the pass's copy, whether it patches, and
\* the result; stored says whether Kubernetes still holds the object
RequeueOnError(collectionSet, error, stored, now) ==
    LET errorCondition ==
            Condition(typeSolrCollectionSetStable, "False",
                      reasonSolrCollectionSetReconcileError, error)
        statusCopy == [collectionSet.status EXCEPT
                          !.Conditions = SetStatusCondition(@, errorCondition, now)]
    IN  IF collectionSet.status # statusCopy
        THEN IF stored
             THEN [status |-> statusCopy, patched |-> TRUE, result |-> requeue]
             ELSE [status |-> statusCopy, patched |-> FALSE, result |-> requeueWithBackoff]
        ELSE [status |-> collectionSet.status, patched |-> FALSE, result |-> requeue]

-----------------------------------------------------------------------------
(* InitializeSolrCluster *)

\* the zero value solr.SolrClient{}
ZeroSolrClient == [Username |-> "", Password |-> "", Url |-> ""]

\* makeSolrClient: its named result solrClient is a fresh zero value, not the package's
makeSolrClient(secretRef, clusterUrl, secretReadable) ==
    IF secretRef # ""
    THEN IF ~secretReadable
         THEN [solrClient |-> ZeroSolrClient,
               err |-> "could not read the basic auth secret [" \o secretRef \o "]"]
         ELSE [solrClient |-> [Username |-> "solr", Password |-> "secret", Url |-> clusterUrl],
               err |-> ""]
    ELSE [solrClient |-> ZeroSolrClient, err |-> "no secret was provided for Solr basic auth"]

\* createChecksumCollection: the run, and whether it failed
createChecksumCollection(run0, checksumCollectionName, replicationFactor, faultAt) ==
    LET uploaded(up) ==
            IF ~up.ok THEN up
            ELSE Issue(up, Call("CreateCollection", checksumCollectionName,
                                configChecksumsConfigSetName, replicationFactor),
                       faultAt, FALSE)
    IN  uploaded(Issue(run0, Call("UploadConfigSet", configChecksumsConfigSetName, "", 0),
                       faultAt, FALSE))

\* InitializeSolrCluster: the package's client afterwards, the run, the cluster status
\* it returns, isInitializing and the error ("" is nil)
InitializeSolrCluster(spec, checksumCollectionName, client, secretReadable, e, log, faultAt) ==
    LET none == [Collections |-> EmptyMap, Aliases |-> EmptyMap]
        outcome(made, run, clusterStatus, isInitializing, err) ==
            [solrClient |-> made.solrClient, run |-> run, clusterStatus |-> clusterStatus,
             isInitializing |-> isInitializing, err |-> err]
        refetched(made, second) ==
            IF ~second.ok THEN outcome(made, second, none, FALSE, "request failed")
            ELSE outcome(made, second, GetClusterStatus(second.engine), TRUE, "")
        bootstrapped(made, created) ==
            IF ~created.ok
            THEN outcome(made, created, none, TRUE, "failed create checksum collection")
            ELSE refetched(made, Issue(created, Call("GetClusterStatus", "", "", 0),
                                       faultAt, FALSE))
        fetched(made, first) ==
            IF ~first.ok THEN outcome(made, first, none, FALSE, "request failed")
            ELSE IF checksumCollectionName \in DOMAIN GetClusterStatus(first.engine).Collections
            THEN outcome(made, first, GetClusterStatus(first.engine), FALSE, "")
            ELSE bootstrapped(made,
                              createChecksumCollection(first, checksumCollectionName,
                                                       Deref(spec.ReplicationFactor), faultAt))
        connected(made) ==
            IF made.err # "" THEN outcome(made, Run(e, log), none, FALSE, made.err)
            ELSE fetched(made, Issue(Run(e, log), Call("GetClusterStatus", "", "", 0),
                                     faultAt, FALSE))
    IN  connected(IF client = ZeroSolrClient
                  THEN makeSolrClient(spec.SecretRef, spec.SolrClusterUrl, secretReadable)
                  ELSE [solrClient |-> client, err |-> ""])

-----------------------------------------------------------------------------
(* UpdateStatus *)

\* UpdateStatus, lines 335-340: the events of the map, in the order the range takes
emitEvents(eventMap, eventOrder) ==
    [i \in 1..Len(eventOrder) |-> [Type |-> eventOrder[i], Message |-> eventMap[eventOrder[i]]]]

\* UpdateStatus: the events it emits, whether it patches, the status it computed and
\* the error ("" is nil), from what populateCollectionSetStatus returned; stored says
\* whether Kubernetes still holds the object
UpdateStatus(collectionSet, populated, stored, eventOrder) ==
    LET differs == collectionSet.status # populated.status
    IN  [events |-> emitEvents(populated.events, eventOrder),
         newStatus |-> populated.status,
         patched |-> differs /\ stored,
         err |-> IF stored THEN ""
                 ELSE IF differs THEN "failed to save collection set status"
                 ELSE "failed to re-fetch SolrCollectionSet"]

-----------------------------------------------------------------------------
(* The initial states *)

\* SolrCollection of the spec
SolrCollection(name, alias, configsetName) ==
    [Name |-> name, Alias |-> alias, ConfigsetName |-> configsetName]

\* SolrCollectionSetSpec
SolrCollectionSetSpec(active, replicationFactor, blueGreenEnabled, cleanupEnabled, collections) ==
    [SolrClusterUrl |-> "http://solr", SecretRef |-> "solr-auth",
     Active |-> active, ReplicationFactor |-> replicationFactor,
     BlueGreenEnabled |-> blueGreenEnabled, CleanupEnabled |-> cleanupEnabled,
     Collections |-> collections]

\* a spec with one collection, x, its alias and its config set left out
SpecOfX(active, blueGreenEnabled, cleanupEnabled) ==
    SolrCollectionSetSpec(active, Nil, blueGreenEnabled, cleanupEnabled,
                          <<SolrCollection("x", "", "")>>)

\* the cluster: its collections, its aliases (alias -> collection), its config sets and
\* the records of the checksum collection (collection -> checksum)
Cluster(collections, aliases, configsets, checksums) ==
    [collections |-> collections, aliases |-> aliases, configsets |-> configsets,
     checksums |-> checksums]

\* a collection that is not the operator's
Foreign == Collection("y", 1, 1, "_default")

\* the checksum collection, as bootstrap creates it
Checksums == Collection(checksumsCollectionName, 1, 1, configChecksumsConfigSetName)

\* a cluster nobody has used
EmptyCluster == Cluster(EmptyMap, EmptyMap, {"_default"}, EmptyMap)

\* one that holds a config set nobody uses, left from a collection since removed
StaleCluster == Cluster(EmptyMap, EmptyMap, {"_default", "old"}, EmptyMap)

\* one that holds a foreign collection y
ForeignCluster == Cluster(Put(EmptyMap, "y", Foreign), EmptyMap, {"_default"}, EmptyMap)

\* the same with an alias a on y
AliasedCluster ==
    Cluster(Put(EmptyMap, "y", Foreign), Put(EmptyMap, "a", "y"), {"_default"}, EmptyMap)

\* one whose bootstrap is done and that holds y, an alias a on y and an alias y on the
\* checksum collection
ShadowedCluster ==
    Cluster(Put(Put(EmptyMap, "y", Foreign), checksumsCollectionName, Checksums),
            Put(Put(EmptyMap, "a", "y"), "y", checksumsCollectionName),
            {"_default", configChecksumsConfigSetName}, EmptyMap)

\* one that holds x's instances already, the green one with a replica too many
SteadyCluster ==
    Cluster(Put(Put(Put(EmptyMap, checksumsCollectionName, Checksums),
                    "x_blue", Collection("x_blue", 1, 1, "x")),
                "x_green", Collection("x_green", 1, 2, "x")),
            Put(EmptyMap, "x", "x_blue"),
            {"_default", configChecksumsConfigSetName, "x"},
            Put(EmptyMap, "x", checksum("QUJD")))

\* one that holds x's instances and no alias on either (both alias calls of the pass
\* that created them failed, or the alias was removed by hand)
UnaliasedCluster ==
    Cluster(Put(Put(Put(EmptyMap, checksumsCollectionName, Checksums),
                    "x_blue", Collection("x_blue", 1, 1, "x")),
                "x_green", Collection("x_green", 1, 1, "x")),
            EmptyMap,
            {"_default", configChecksumsConfigSetName, "x"},
            Put(EmptyMap, "x", checksum("QUJD")))

\* the ConfigMaps labelled for the set: x's
GoodConfigMaps == <<ConfigMap("x-configset", Put(EmptyMap, "collection", "x"), "QUJD")>>

\* the same and one without a collection label
StrayConfigMaps == Append(GoodConfigMaps, ConfigMap("stray", EmptyMap, "!!"))

\* x's ConfigMap with a blob that is not base64
BrokenConfigMaps == <<ConfigMap("x-configset", Put(EmptyMap, "collection", "x"), "!!")>>

\* no cluster status read yet
NoClusterStatus == [Collections |-> EmptyMap, Aliases |-> EmptyMap]

\* the same spec with every field set
FullSpecOfX ==
    SolrCollectionSetSpec(Ptr(TRUE), Ptr(1), Ptr(TRUE), Ptr(FALSE),
                          <<SolrCollection("x", "x", "x")>>)

\* the spec of a second set: the collection y on a config set the cluster has, not
\* blue/green
SpecOfY(cleanupEnabled) ==
    SolrCollectionSetSpec(Nil, Nil, Ptr(FALSE), cleanupEnabled,
                          <<SolrCollection("y", "", "_default")>>)

\* a second set, its operator at rest
OtherSet(spec) ==
    [exists |-> TRUE, spec |-> spec, pc |-> "idle", snapshot |-> NoClusterStatus,
     calls |-> <<>>]

\* no second set
NoOtherSet == [OtherSet(SpecOfY(Nil)) EXCEPT !.exists = FALSE]

\* a world the operator starts in
World(spec, cluster, configMapList, secret) ==
    [spec |-> spec, cluster |-> cluster, configMaps |-> configMapList, secret |-> secret,
     otherSet |-> NoOtherSet]

\* a world in which a second set is deployed on the same cluster
SharedWorld(spec, otherSpec) ==
    [spec |-> spec, cluster |-> EmptyCluster, configMaps |-> GoodConfigMaps, secret |-> TRUE,
     otherSet |-> OtherSet(otherSpec)]

\* the worlds the operator starts in
InitWorlds ==
    {World(SpecOfX(Nil, Nil, Nil), EmptyCluster, GoodConfigMaps, TRUE),
     World(SpecOfX(Nil, Nil, Nil), ForeignCluster, GoodConfigMaps, TRUE),
     World(SpecOfX(Nil, Nil, Nil), SteadyCluster, GoodConfigMaps, TRUE),
     World(SpecOfX(Nil, Nil, Nil), UnaliasedCluster, GoodConfigMaps, TRUE),
     World(SpecOfX(Nil, Nil, Ptr(TRUE)), AliasedCluster, GoodConfigMaps, TRUE),
     World(SpecOfX(Nil, Nil, Ptr(TRUE)), ShadowedCluster, GoodConfigMaps, TRUE),
     World(SpecOfX(Nil, Ptr(FALSE), Nil), EmptyCluster, GoodConfigMaps, TRUE),
     World(SpecOfX(Nil, Ptr(FALSE), Ptr(TRUE)), ForeignCluster, GoodConfigMaps, TRUE),
     World(SpecOfX(Ptr(FALSE), Nil, Nil), EmptyCluster, GoodConfigMaps, TRUE),
     World(SpecOfX(Nil, Nil, Nil), EmptyCluster, GoodConfigMaps, FALSE),
     World(SpecOfX(Nil, Nil, Nil), EmptyCluster, StrayConfigMaps, TRUE),
     World(SpecOfX(Nil, Nil, Nil), EmptyCluster, BrokenConfigMaps, TRUE),
     World(FullSpecOfX, EmptyCluster, GoodConfigMaps, TRUE),
     World(SpecOfX(Nil, Ptr(FALSE), Ptr(TRUE)), StaleCluster, GoodConfigMaps, TRUE),
     World(SpecOfX(Nil, Ptr(FALSE), Ptr(FALSE)), StaleCluster, GoodConfigMaps, TRUE),
     SharedWorld(SpecOfX(Nil, Nil, Nil), SpecOfY(Nil)),
     SharedWorld(SpecOfX(Nil, Nil, Ptr(TRUE)), SpecOfY(Nil))}

\* the sets the workers of the controller reconcile, foo and a second one
Sets == {SetName, "bar"}

\* the workers at rest: sc is the client InitializeSolrCluster has made, sent the
\* URLs the calls of the pass have gone to
AtRest == [w \in Sets |-> [pc |-> "idle", sc |-> ZeroSolrClient, err |-> "", sent |-> {}]]

\* what the properties read of the passes: the inputs and the outcome of the previous
\* pass's UpdateStatus (prev), what the step in flight did, and the config sets
\* uploaded with their checksum written (written: config set -> blob)
NoTrace ==
    [prev |-> Nil, unchanged |-> FALSE, patched |-> FALSE, emitted |-> FALSE,
     isScaling |-> FALSE, err |-> "", finished |-> FALSE,
     written |-> EmptyMap, reupload |-> FALSE, kept |-> FALSE]

\* the operator has started and the object has just been created
Init ==
    /\ \E world \in InitWorlds :
        /\ object = [exists |-> TRUE, spec |-> world.spec, status |-> ZeroStatus]
        /\ cs = [spec |-> world.spec, status |-> ZeroStatus]
        /\ configMaps = world.configMaps
        /\ secretExists = world.secret
        /\ engine = world.cluster
        /\ otherSet = world.otherSet
    /\ solrClient = ZeroSolrClient
    /\ pc = "idle"
    /\ snapshot = NoClusterStatus
    /\ pending = TRUE
    /\ result = requeue
    /\ calls = <<>>
    /\ events = <<>>
    /\ trace = NoTrace
    /\ clock = 1
    /\ budget = [env |-> MaxEnvSteps, faults |-> MaxFaults]
    /\ pureIn = <<>>
    /\ pureOut = [op |-> "none"]
    /\ reconciles = AtRest

-----------------------------------------------------------------------------
(* A reconcile pass, step by step *)

\* the sets of calls of a step that may fail for a reason of the cluster's own, the step
\* making n calls when none fails
FaultSets(n) == {F \in SUBSET (1..n) : Cardinality(F) <= budget.faults}

\* metav1.Now() at the start of a pass
Nows == {clock, IF clock < MaxClock THEN clock + 1 ELSE clock}

\* the trace at the start of a pass
PassTrace ==
    [trace EXCEPT !.unchanged = FALSE, !.patched = FALSE, !.emitted = FALSE,
                  !.isScaling = FALSE, !.err = "", !.finished = FALSE,
                  !.reupload = FALSE, !.kept = FALSE]

\* return r.RequeueOnError(ctx, req, collectionSetSpec, err): the pass ends
EndWithError(collectionSet, error) ==
    LET done(exit) ==
            /\ cs' = [collectionSet EXCEPT !.status = exit.status]
            /\ object' = IF exit.patched THEN [object EXCEPT !.status = exit.status] ELSE object
            /\ result' = exit.result
            /\ pending' = (pending \/ exit.patched \/ exit.result.RequeueAfter > 0)
            /\ pc' = "idle"
    IN  done(RequeueOnError(collectionSet, error, object.exists, clock))

\* a faulty variant of ReconcileBegin: the not-found answer of the Get is not tested
ReconcileBegin_NoNotFound ==
    /\ pc = "idle"
    /\ pending
    /\ \E now \in Nows :
        LET seeded == Len(object.status.Conditions) = 0
            status1 ==
                IF seeded
                THEN [object.status EXCEPT
                        !.Conditions =
                            SetStatusCondition(@, Condition(typeSolrCollectionSetStable, "Unknown",
                                                            reasonSolrCollectionSetInitializing,
                                                            "Bootstrapping the operator"), now)]
                ELSE object.status
            defaulted == WithDefaults(object.spec)
            goesOn == ~defaulted.changed /\ Deref(defaulted.spec.Active)
        IN  /\ clock' = now
            /\ object' = [object EXCEPT !.status = status1,
                                        !.spec = IF defaulted.changed THEN defaulted.spec ELSE @]
            /\ cs' = [spec |-> defaulted.spec, status |-> status1]
            /\ result' = IF defaulted.changed THEN requeueImmediately
                         ELSE IF ~goesOn THEN requeue
                         ELSE result
            /\ pending' = (seeded \/ defaulted.changed)
            /\ pc' = IF goesOn THEN "init" ELSE "idle"
            /\ trace' = IF goesOn THEN PassTrace ELSE [PassTrace EXCEPT !.prev = Nil]
    /\ calls' = <<>>
    /\ events' = <<>>
    /\ UNCHANGED <<reconciles, otherSet, configMaps, secretExists, engine, solrClient, snapshot, budget,
                   pureIn, pureOut>>

\* a faulty variant of ReconcileBegin: the pass that seeds the conditions ends there
ReconcileBegin_SeedAndRequeue ==
    /\ pc = "idle"
    /\ pending
    /\ \E now \in Nows :
        LET seeded == object.exists /\ Len(object.status.Conditions) = 0
            status1 ==
                IF seeded
                THEN [object.status EXCEPT
                        !.Conditions =
                            SetStatusCondition(@, Condition(typeSolrCollectionSetStable, "Unknown",
                                                            reasonSolrCollectionSetInitializing,
                                                            "Bootstrapping the operator"), now)]
                ELSE object.status
            defaulted == IF seeded THEN [changed |-> FALSE, spec |-> object.spec]
                         ELSE WithDefaults(object.spec)
            goesOn == object.exists /\ ~seeded /\ ~defaulted.changed /\ Deref(defaulted.spec.Active)
        IN  /\ clock' = now
            /\ object' = IF ~object.exists THEN object
                         ELSE [object EXCEPT !.status = status1,
                                             !.spec = IF defaulted.changed THEN defaulted.spec ELSE @]
            /\ cs' = IF ~object.exists THEN cs
                     ELSE [spec |-> defaulted.spec, status |-> status1]
            /\ result' = IF ~object.exists THEN requeue
                         ELSE IF defaulted.changed THEN requeueImmediately
                         ELSE IF ~goesOn THEN requeue
                         ELSE result
            /\ pending' = (seeded \/ (object.exists /\ defaulted.changed))
            /\ pc' = IF goesOn THEN "init" ELSE "idle"
            /\ trace' = IF goesOn THEN PassTrace ELSE [PassTrace EXCEPT !.prev = Nil]
    /\ calls' = <<>>
    /\ events' = <<>>
    /\ UNCHANGED <<reconciles, otherSet, configMaps, secretExists, engine, solrClient, snapshot, budget,
                   pureIn, pureOut>>

\* Reconcile, lines 149-207: fetch the object, seed its conditions, fill in the defaults
ReconcileBegin ==
    /\ pc = "idle"
    /\ pending
    /\ \E now \in Nows :
        LET seeded == object.exists /\ Len(object.status.Conditions) = 0
            status1 ==
                IF seeded
                THEN [object.status EXCEPT
                        !.Conditions =
                            SetStatusCondition(@, Condition(typeSolrCollectionSetStable, "Unknown",
                                                            reasonSolrCollectionSetInitializing,
                                                            "Bootstrapping the operator"), now)]
                ELSE object.status
            defaulted == WithDefaults(object.spec)
            goesOn == object.exists /\ ~defaulted.changed /\ Deref(defaulted.spec.Active)
        IN  /\ clock' = now
            /\ object' = IF ~object.exists THEN object
                         ELSE [object EXCEPT !.status = status1,
                                             !.spec = IF defaulted.changed THEN defaulted.spec ELSE @]
            /\ cs' = IF ~object.exists THEN cs
                     ELSE [spec |-> defaulted.spec, status |-> status1]
            /\ result' = IF ~object.exists THEN requeue
                         ELSE IF defaulted.changed THEN requeueImmediately
                         ELSE IF ~goesOn THEN requeue
                         ELSE result
            /\ pending' = (seeded \/ (object.exists /\ defaulted.changed))
            /\ pc' = IF goesOn THEN "init" ELSE "idle"
            /\ trace' = IF goesOn THEN PassTrace ELSE [PassTrace EXCEPT !.prev = Nil]
    /\ calls' = <<>>
    /\ events' = <<>>
    /\ UNCHANGED <<reconciles, otherSet, configMaps, secretExists, engine, solrClient, snapshot, budget,
                   pureIn, pureOut>>

\* Reconcile, lines 212-223: InitializeSolrCluster and the Initializing event
ReconcileInitialize ==
    /\ pc = "init"
    /\ LET step(faultAt) ==
               InitializeSolrCluster(cs.spec, checksumsCollectionName, solrClient,
                                     secretExists, engine, calls, faultAt)
           done(faultAt, init) ==
               /\ init.run.faults = Cardinality(faultAt)
               /\ solrClient' = init.solrClient
               /\ engine' = init.run.engine
               /\ calls' = init.run.calls
               /\ budget' = [budget EXCEPT !.faults = @ - init.run.faults]
               /\ snapshot' = init.clusterStatus
               /\ events' =
                   IF init.err = "" /\ init.isInitializing
                   THEN Append(events,
                               [Type |-> eventSolrCollectionSetInitializing,
                                Message |-> "SolrCollectionSpec [" \o SetName
                                               \o "] is being initialized in namespace [default]"])
                   ELSE events
               /\ IF init.err # ""
                  THEN /\ EndWithError(cs, init.err)
                       /\ trace' = [trace EXCEPT !.prev = Nil, !.err = init.err]
                  ELSE /\ pc' = "status"
                       /\ UNCHANGED <<cs, object, result, pending, trace>>
       IN  \E faultAt \in FaultSets(step({}).run.n) : done(faultAt, step(faultAt))
    /\ UNCHANGED <<reconciles, otherSet, configMaps, secretExists, clock, pureIn, pureOut>>

\* Reconcile, lines 228-232: UpdateStatus
ReconcileUpdateStatus ==
    /\ pc = "status"
    /\ LET done(updated, persisted) ==
               /\ events' = events \o updated.events
               /\ IF updated.err = ""
                  THEN /\ object' = [object EXCEPT !.status = persisted]
                       /\ cs' = [spec |-> object.spec, status |-> persisted]
                       /\ pending' = (pending \/ updated.patched)
                       /\ pc' = "configsets"
                       /\ UNCHANGED result
                  ELSE EndWithError([cs EXCEPT !.status =
                                        IF cs.status # updated.newStatus
                                        THEN updated.newStatus ELSE @],
                                    updated.err)
               /\ trace' =
                   [trace EXCEPT
                       !.unchanged = /\ trace.prev # Nil
                                     /\ trace.prev[1].spec = cs.spec
                                     /\ trace.prev[1].snapshot = snapshot
                                     /\ trace.prev[1].status = cs.status,
                       !.patched = updated.patched,
                       !.emitted = updated.events # <<>>,
                       !.err = updated.err,
                       !.prev = IF updated.err = ""
                                THEN <<[spec |-> cs.spec, snapshot |-> snapshot,
                                        status |-> persisted]>>
                                ELSE Nil]
           saved(updated) ==
               done(updated, IF updated.patched THEN updated.newStatus ELSE object.status)
           emitted(populated) ==
               \E eventOrder \in Orders(DOMAIN populated.events) :
                   saved(UpdateStatus(cs, populated, object.exists, eventOrder))
       IN  \E order \in Orders(DOMAIN snapshot.Collections),
              statusOrder \in Orders(DOMAIN seedCollectionStatusMap(cs.spec)) :
               emitted(populateCollectionSetStatus(cs, snapshot, order, statusOrder, clock))
    /\ UNCHANGED <<reconciles, otherSet, configMaps, secretExists, engine, solrClient, snapshot, calls, clock,
                   budget, pureIn, pureOut>>

\* the calls a step added to the log
NewCalls(run) == SubSeq(run.calls, Len(calls) + 1, Len(run.calls))

\* whether the step uploaded the config set
Uploaded(log, collection) ==
    \E i \in 1..Len(log) : log[i].op = "UploadConfigSet" /\ log[i].name = collection

\* whether the step uploaded the config set and wrote its checksum record
UploadedAndWritten(log, collection) ==
    \E i \in 1..(Len(log) - 1) :
        /\ log[i].op = "UploadConfigSet" /\ log[i].name = collection /\ log[i].res = "ok"
        /\ log[i + 1].op = "WriteRecord" /\ log[i + 1].target = collection
        /\ log[i + 1].res = "ok"

\* the calls ManageConfigSets makes when none fails
CallsOfConfigSets(plan) ==
    ManageConfigSets(plan,
                     CHOOSE o \in Orders(DOMAIN plan.uploads) : TRUE,
                     CHOOSE o \in Orders(plan.removes) : TRUE,
                     checksumsCollectionName, {}).run.n

\* Reconcile, lines 238-242: ManageConfigSets
ReconcileConfigSets ==
    /\ pc = "configsets"
    /\ LET step(faultAt) ==
               configSetPlan(cs.spec, engine, configMaps, checksumsCollectionName, calls, faultAt)
           \* the config sets of which the cluster holds what an earlier pass uploaded
           \* from the blob this pass sees, and its record
           settled(byLabel) ==
               {c \in DOMAIN trace.written :
                   /\ byLabel.ok
                   /\ c \in DOMAIN byLabel.configMaps
                   /\ byLabel.configMaps[c].configset = trace.written[c]
                   /\ c \in engine.configsets
                   /\ c \in DOMAIN engine.checksums}
           traced(plan, managed, log, kept, written) ==
               trace' =
                   [trace EXCEPT
                       !.err = managed.err,
                       !.reupload = \E c \in kept : Uploaded(log, c),
                       !.kept = managed.err = "" /\ \E c \in kept : ~Uploaded(log, c),
                       !.written =
                           [c \in (DOMAIN trace.written) \cup written |->
                               IF c \in written THEN plan.uploads[c].configset
                               ELSE trace.written[c]]]
           done(faultAt, plan, managed, log) ==
               /\ managed.run.faults = Cardinality(faultAt)
               /\ engine' = managed.run.engine
               /\ calls' = managed.run.calls
               /\ budget' = [budget EXCEPT !.faults = @ - managed.run.faults]
               /\ IF managed.err # ""
                  THEN EndWithError(cs, managed.err)
                  ELSE /\ pc' = "collections"
                       /\ UNCHANGED <<cs, object, result, pending>>
               /\ traced(plan, managed, log, settled(configMapsByLabel(configMaps)),
                         {c \in DOMAIN plan.uploads : UploadedAndWritten(log, c)})
           logged(faultAt, plan, managed) == done(faultAt, plan, managed, NewCalls(managed.run))
           planned(faultAt, plan) ==
               \E uploadOrder \in Orders(DOMAIN plan.uploads),
                  removeOrder \in Orders(plan.removes) :
                   logged(faultAt, plan,
                          ManageConfigSets(plan, uploadOrder, removeOrder,
                                           checksumsCollectionName, faultAt))
       IN  \E faultAt \in FaultSets(CallsOfConfigSets(step({}))) :
               planned(faultAt, step(faultAt))
    /\ UNCHANGED <<reconciles, otherSet, configMaps, secretExists, solrClient, snapshot, events, clock,
                   pureIn, pureOut>>

\* the calls ManageCollections makes for a plan
CallsOfCollections(plan) ==
    ManageCollections(Run(engine, calls), cs.spec, snapshot.Aliases, plan,
                      CHOOSE o \in Orders(DOMAIN plan.creates) : TRUE,
                      CHOOSE o \in Orders(DOMAIN plan.deleteAliases) : TRUE,
                      CHOOSE o \in Orders(plan.deletes) : TRUE,
                      CHOOSE o \in Orders(plan.adjust) : TRUE, {}).run.n

\* Reconcile, lines 247-251: ManageCollections
ReconcileCollections ==
    /\ pc = "collections"
    /\ LET done(faultAt, managed) ==
               /\ managed.run.faults = Cardinality(faultAt)
               /\ engine' = managed.run.engine
               /\ calls' = managed.run.calls
               /\ budget' = [budget EXCEPT !.faults = @ - managed.run.faults]
               /\ result' = IF managed.changed THEN requeueImmediately ELSE result
               /\ pending' = (pending \/ managed.changed)
               /\ pc' = IF managed.changed THEN "idle" ELSE "replicas"
               /\ trace' = [trace EXCEPT !.finished = managed.changed]
           planned(plan) ==
               \E faultAt \in FaultSets(CallsOfCollections(plan)),
                  createOrder \in Orders(DOMAIN plan.creates),
                  aliasKeyOrder \in Orders(DOMAIN plan.deleteAliases),
                  deleteOrder \in Orders(plan.deletes),
                  adjustOrder \in Orders(plan.adjust) :
                   done(faultAt,
                        ManageCollections(Run(engine, calls), cs.spec, snapshot.Aliases, plan,
                                          createOrder, aliasKeyOrder, deleteOrder, adjustOrder,
                                          faultAt))
       IN  \E aliasOrder \in Orders(DOMAIN snapshot.Aliases) :
               planned(collectionPlan(cs.spec, snapshot.Collections, snapshot.Aliases,
                                      aliasOrder))
    /\ UNCHANGED <<reconciles, otherSet, object, configMaps, secretExists, solrClient, cs, snapshot, events,
                   clock, pureIn, pureOut>>

\* whether a call of the log was answered with the insufficient-capacity signal
Backpressure(log) == \E i \in 1..Len(log) : log[i].res = "backpressure"

\* Reconcile, lines 260-269: AdjustReplicas, and the result of the pass
ReconcileReplicas ==
    /\ pc = "replicas"
    /\ LET done(faultAt, notEnoughNodes, adjusted) ==
               /\ adjusted.run.faults = Cardinality(faultAt)
               /\ notEnoughNodes = Backpressure(adjusted.run.calls)
               /\ engine' = adjusted.run.engine
               /\ calls' = adjusted.run.calls
               /\ budget' = [budget EXCEPT !.faults = @ - adjusted.run.faults]
               /\ IF adjusted.err # ""
                  THEN EndWithError(cs, adjusted.err)
                  ELSE /\ result' = IF adjusted.isScaling THEN requeueWithBackoff ELSE requeue
                       /\ pending' = (pending \/ adjusted.isScaling)
                       /\ pc' = "idle"
                       /\ UNCHANGED <<cs, object>>
               /\ trace' = [trace EXCEPT !.isScaling = adjusted.isScaling,
                                         !.err = adjusted.err,
                                         !.finished = TRUE]
           queued(adjustments) ==
               \E faultAt \in FaultSets(Cardinality(DOMAIN adjustments)),
                  notEnoughNodes \in BOOLEAN,
                  order \in Orders(DOMAIN adjustments) :
                   done(faultAt, notEnoughNodes,
                        AdjustReplicas(Run(engine, calls), adjustments, order, faultAt,
                                       notEnoughNodes))
       IN  queued(adjustReplicas(cs.spec, snapshot.Collections))
    /\ UNCHANGED <<reconciles, otherSet, configMaps, secretExists, solrClient, snapshot, events, clock,
                   pureIn, pureOut>>

-----------------------------------------------------------------------------
(* What happens outside the operator *)

\* the cluster after the calls of a log
Replay(e, log) ==
    LET RECURSIVE go(_, _)
        go(i, cur) == IF i > Len(log) THEN cur ELSE go(i + 1, EngineApply(cur, log[i]).engine)
    IN  go(1, e)

\* what the Go runtime reports when a nil pointer is dereferenced
nilDereference == "runtime error: invalid memory address or nil pointer dereference"

\* A call of the pass gets no HTTP response.  client.Do returns a nil response with its
\* error, and every operation of SolrClient runs `defer resp.Body.Close()` before it
\* tests the error (solr_client.go:43-47 and alike): the operation panics, and the pass
\* with it, at the k-th call of the step in flight.  Nothing of Reconcile runs after
\* that; the request is queued again, by the controller that recovered the panic or by
\* the process that was started again, which then has no client.
ReconcilePanic ==
    /\ pc \in {"init", "configsets", "collections", "replicas"}
    /\ budget.faults > 0
    /\ LET panicked(run, k, client) ==
               LET log == NewCalls(run)
               IN  /\ run.faults = 1
                   /\ calls' = calls \o SubSeq(log, 1, k - 1)
                                     \o <<[log[k] EXCEPT !.res = "no response"]>>
                   /\ engine' = Replay(engine, SubSeq(log, 1, k - 1))
                   /\ solrClient' \in {client, ZeroSolrClient}
           initialized(k, init) == panicked(init.run, k, init.solrClient)
           planned(k, plan) ==
               \E uploadOrder \in Orders(DOMAIN plan.uploads),
                  removeOrder \in Orders(plan.removes) :
                   panicked(ManageConfigSets(plan, uploadOrder, removeOrder,
                                             checksumsCollectionName, {k}).run,
                            k, solrClient)
           managed(plan) ==
               \E k \in 1..CallsOfCollections(plan),
                  createOrder \in Orders(DOMAIN plan.creates),
                  aliasKeyOrder \in Orders(DOMAIN plan.deleteAliases),
                  deleteOrder \in Orders(plan.deletes),
                  adjustOrder \in Orders(plan.adjust) :
                   panicked(ManageCollections(Run(engine, calls), cs.spec, snapshot.Aliases,
                                              plan, createOrder, aliasKeyOrder, deleteOrder,
                                              adjustOrder, {k}).run,
                            k, solrClient)
           adjusted(adjustments) ==
               \E k \in 1..Cardinality(DOMAIN adjustments),
                  order \in Orders(DOMAIN adjustments) :
                   panicked(AdjustReplicas(Run(engine, calls), adjustments, order, {k},
                                           FALSE).run,
                            k, solrClient)
       IN  CASE pc = "init" ->
                  \E k \in 1..InitializeSolrCluster(cs.spec, checksumsCollectionName,
                                                    solrClient, secretExists, engine, calls,
                                                    {}).run.n :
                      initialized(k, InitializeSolrCluster(cs.spec, checksumsCollectionName,
                                                           solrClient, secretExists, engine,
                                                           calls, {k}))
             [] pc = "configsets" ->
                  \E k \in 1..CallsOfConfigSets(configSetPlan(cs.spec, engine, configMaps,
                                                              checksumsCollectionName, calls,
                                                              {})) :
                      planned(k, configSetPlan(cs.spec, engine, configMaps,
                                               checksumsCollectionName, calls, {k}))
             [] pc = "collections" ->
                  \E aliasOrder \in Orders(DOMAIN snapshot.Aliases) :
                      managed(collectionPlan(cs.spec, snapshot.Collections, snapshot.Aliases,
                                             aliasOrder))
             [] pc = "replicas" ->
                  adjusted(adjustReplicas(cs.spec, snapshot.Collections))
    /\ budget' = [budget EXCEPT !.faults = @ - 1]
    /\ pc' = "idle"
    /\ pending' = TRUE
    /\ trace' = [trace EXCEPT !.err = nilDereference,
                              !.prev = IF pc = "init" THEN Nil ELSE @]
    /\ UNCHANGED <<reconciles, otherSet, object, configMaps, secretExists, cs, snapshot, result,
                   events, clock, pureIn, pureOut>>

\* one change from outside is spent
Spend == budget' = [budget EXCEPT !.env = @ - 1]

\* the operator starts a pass on the second set and reads the cluster's status
\* (InitializeSolrCluster, line 1067)
OtherGetClusterStatus ==
    /\ budget.env > 0
    /\ otherSet.exists
    /\ otherSet.pc = "idle"
    /\ otherSet' = [otherSet EXCEPT !.pc = "collections",
                              !.snapshot = GetClusterStatus(engine),
                              !.calls = <<>>]
    /\ Spend
    /\ UNCHANGED <<reconciles, object, configMaps, secretExists, engine, solrClient, pc, cs, snapshot,
                   pending, result, calls, events, trace, clock, pureIn, pureOut>>

\* the pass on the second set runs ManageCollections on what it read.  (The other steps
\* of that pass touch the set's own status, its config sets, its reserved checksum
\* collection and the replicas of its own instance; none creates or deletes a
\* collection of its own or another's.)
OtherManageCollections ==
    /\ otherSet.pc = "collections"
    /\ LET done(managed) ==
               /\ engine' = managed.run.engine
               /\ otherSet' = [otherSet EXCEPT !.pc = "idle", !.calls = managed.run.calls]
           planned(spec, plan) ==
               \E createOrder \in Orders(DOMAIN plan.creates),
                  aliasKeyOrder \in Orders(DOMAIN plan.deleteAliases),
                  deleteOrder \in Orders(plan.deletes),
                  adjustOrder \in Orders(plan.adjust) :
                   done(ManageCollections(Run(engine, <<>>), spec, otherSet.snapshot.Aliases,
                                          plan, createOrder, aliasKeyOrder, deleteOrder,
                                          adjustOrder, {}))
           defaulted(spec) ==
               \E aliasOrder \in Orders(DOMAIN otherSet.snapshot.Aliases) :
                   planned(spec, collectionPlan(spec, otherSet.snapshot.Collections,
                                                otherSet.snapshot.Aliases, aliasOrder))
       IN  defaulted(WithDefaults(otherSet.spec).spec)
    /\ UNCHANGED <<reconciles, object, configMaps, secretExists, solrClient, pc, cs, snapshot, pending,
                   result, calls, events, trace, clock, budget, pureIn, pureOut>>

\* a user edits spec.replicationFactor; the watch queues a request
UserSetReplicationFactor ==
    /\ budget.env > 0
    /\ object.exists
    /\ \E replicationFactor \in 1..MaxReplicationFactor :
        /\ object.spec.ReplicationFactor # Ptr(replicationFactor)
        /\ object' = [object EXCEPT !.spec.ReplicationFactor = Ptr(replicationFactor)]
    /\ pending' = TRUE
    /\ Spend
    /\ UNCHANGED <<reconciles, otherSet, configMaps, secretExists, engine, solrClient, pc, cs, snapshot, result,
                   calls, events, trace, clock, pureIn, pureOut>>

\* someone else creates the collection y in the cluster
ExternalCreateCollection ==
    /\ budget.env > 0
    /\ "y" \notin DOMAIN engine.collections
    /\ "y" \notin DOMAIN engine.aliases
    /\ engine' = [engine EXCEPT !.collections = Put(@, "y", Foreign)]
    /\ Spend
    /\ UNCHANGED <<reconciles, otherSet, object, configMaps, secretExists, solrClient, pc, cs, snapshot, pending,
                   result, calls, events, trace, clock, pureIn, pureOut>>

\* a replica of one of the cluster's collections is lost
ReplicaLost ==
    /\ budget.env > 0
    /\ \E name \in DOMAIN engine.collections :
        /\ engine.collections[name].ReplicaCount > 1
        /\ engine' = [engine EXCEPT !.collections[name].ReplicaCount = @ - 1]
    /\ Spend
    /\ UNCHANGED <<reconciles, otherSet, object, configMaps, secretExists, solrClient, pc, cs, snapshot, pending,
                   result, calls, events, trace, clock, pureIn, pureOut>>

\* the config set of x changes in its ConfigMap; ConfigMaps are not watched
ConfigMapChanged ==
    /\ budget.env > 0
    /\ configMaps[1].configset = "QUJD"
    /\ configMaps' = [configMaps EXCEPT ![1].configset = "eHl6"]
    /\ Spend
    /\ UNCHANGED <<reconciles, otherSet, object, secretExists, engine, solrClient, pc, cs, snapshot, pending,
                   result, calls, events, trace, clock, pureIn, pureOut>>

\* the SolrCollectionSet is deleted; the watch queues a request
DeleteObject ==
    /\ budget.env > 0
    /\ object.exists
    /\ object' = [object EXCEPT !.exists = FALSE]
    /\ pending' = TRUE
    /\ Spend
    /\ UNCHANGED <<reconciles, otherSet, configMaps, secretExists, engine, solrClient, pc, cs, snapshot, result,
                   calls, events, trace, clock, pureIn, pureOut>>

\* the informer's periodic resync queues a request
Resync ==
    /\ ~pending
    /\ pending' = TRUE
    /\ UNCHANGED <<reconciles, otherSet, object, configMaps, secretExists, engine, solrClient, pc, cs, snapshot,
                   result, calls, events, trace, clock, budget, pureIn, pureOut>>

-----------------------------------------------------------------------------
(* The specifications *)

\* a step of a reconcile pass
Pass ==
    \/ ReconcileBegin
    \/ ReconcileInitialize
    \/ ReconcileUpdateStatus
    \/ ReconcileConfigSets
    \/ ReconcileCollections
    \/ ReconcileReplicas

Next ==
    \/ ReconcileBegin
    \/ ReconcileInitialize
    \/ ReconcileUpdateStatus
    \/ ReconcileConfigSets
    \/ ReconcileCollections
    \/ ReconcileReplicas
    \/ ReconcilePanic
    \/ UserSetReplicationFactor
    \/ ExternalCreateCollection
    \/ ReplicaLost
    \/ ConfigMapChanged
    \/ DeleteObject
    \/ Resync
    \/ OtherGetClusterStatus
    \/ OtherManageCollections

\* the operator in a world that changes and a cluster whose calls may fail
Spec == Init /\ [][Next]_vars

\* the worlds in which nothing stands in the operator's way: the Secret is there, the
\* ConfigMaps are labelled and the set is not paused
FrozenWorlds ==
    {world \in InitWorlds :
        /\ world.secret
        /\ world.configMaps = GoodConfigMaps
        /\ world.spec.Active # Ptr(FALSE)
        /\ ~world.otherSet.exists}

\* the same start, in a world where nothing changes from outside and no call fails
FrozenInit ==
    /\ \E world \in FrozenWorlds :
        /\ object = [exists |-> TRUE, spec |-> world.spec, status |-> ZeroStatus]
        /\ cs = [spec |-> world.spec, status |-> ZeroStatus]
        /\ configMaps = world.configMaps
        /\ secretExists = world.secret
        /\ engine = world.cluster
        /\ otherSet = world.otherSet
    /\ solrClient = ZeroSolrClient
    /\ pc = "idle"
    /\ snapshot = NoClusterStatus
    /\ pending = TRUE
    /\ result = requeue
    /\ calls = <<>>
    /\ events = <<>>
    /\ trace = NoTrace
    /\ clock = 1
    /\ budget = [env |-> 0, faults |-> 0]
    /\ pureIn = <<>>
    /\ pureOut = [op |-> "none"]
    /\ reconciles = AtRest

FrozenNext == Pass \/ Resync

\* the operator left alone: the informer resyncs again and again, so that a request is
\* queued whenever the operator has come to rest
FrozenSpec == FrozenInit /\ [][FrozenNext]_vars /\ WF_vars(Resync)

-----------------------------------------------------------------------------
(* The pure functions, applied to the specs the API server admits *)

\* the collections of a spec: names of one character or more (MinLength 1), pairwise
\* distinct (the list is a map keyed by name)
PureCollections ==
    LET one == {SolrCollection(name, alias, configsetName) :
                    name \in {"x", "y"}, alias \in {"", "a"}, configsetName \in {"", "c"}}
    IN  {collections \in UNION {[1..n -> one] : n \in 0..MaxPureCollections} :
            \A i, j \in 1..Len(collections) :
                i # j => collections[i].Name # collections[j].Name}

\* the specs: each optional field left out or set
PureSpecs ==
    {SolrCollectionSetSpec(active, replicationFactor, blueGreenEnabled, cleanupEnabled,
                           collections) :
        active \in {Nil, Ptr(TRUE), Ptr(FALSE)},
        replicationFactor \in {Nil} \cup {Ptr(n) : n \in 1..MaxReplicationFactor},
        blueGreenEnabled \in {Nil, Ptr(TRUE), Ptr(FALSE)},
        cleanupEnabled \in {Nil, Ptr(TRUE), Ptr(FALSE)},
        collections \in PureCollections}

PureInit ==
    /\ pureIn \in PureSpecs
    /\ pureOut = [op |-> "none"]
    /\ reconciles = AtRest
    /\ object = [exists |-> FALSE, spec |-> pureIn, status |-> ZeroStatus]
    /\ cs = [spec |-> pureIn, status |-> ZeroStatus]
    /\ configMaps = <<>>
    /\ secretExists = FALSE
    /\ engine = EmptyCluster
    /\ otherSet = NoOtherSet
    /\ solrClient = ZeroSolrClient
    /\ pc = "idle"
    /\ snapshot = NoClusterStatus
    /\ pending = FALSE
    /\ result = requeue
    /\ calls = <<>>
    /\ events = <<>>
    /\ trace = NoTrace
    /\ clock = 1
    /\ budget = [env |-> 0, faults |-> 0]

\* collectionSetSpec.WithDefaults(logger), and once more on what it left
ApplyWithDefaults ==
    /\ pureOut.op = "none"
    /\ LET applied(first) ==
               pureOut' = [op |-> "WithDefaults", first |-> first,
                           second |-> WithDefaults(first.spec)]
       IN  applied(WithDefaults(pureIn))
    /\ UNCHANGED <<reconciles, otherSet, object, configMaps, secretExists, engine, solrClient, pc, cs, snapshot,
                   pending, result, calls, events, trace, clock, budget, pureIn>>

\* mapCollections(spec.Collections, storage, isBlueGreenEneabled) on an empty storage,
\* and countSpecifiedCollections on the same
ApplyMapCollections ==
    /\ pureOut.op = "none"
    /\ \E isBlueGreenEnabled \in BOOLEAN :
        pureOut' = [op |-> "mapCollections",
                    isBlueGreenEnabled |-> isBlueGreenEnabled,
                    storage |-> mapCollections(pureIn.Collections, isBlueGreenEnabled),
                    count |-> countSpecifiedCollections(pureIn.Collections, isBlueGreenEnabled)]
    /\ UNCHANGED <<reconciles, otherSet, object, configMaps, secretExists, engine, solrClient, pc, cs, snapshot,
                   pending, result, calls, events, trace, clock, budget, pureIn>>

PureNext == ApplyWithDefaults \/ ApplyMapCollections

\* the pure functions on every input
PureSpec == PureInit /\ [][PureNext]_vars

-----------------------------------------------------------------------------
(* The workers of the controller and the package's solrClient *)

\* the spec of the set bar: it names another cluster
SpecOfBar == [SpecOfY(Ptr(FALSE)) EXCEPT !.SolrClusterUrl = "http://other"]

\* the spec of a set
SpecOf(w) == IF w = SetName THEN FullSpecOfX ELSE SpecOfBar

\* what a read may return of a struct that is being stored over without
\* synchronisation: each field of the old value or of the new one
Mixes(old, new) ==
    {[Username |-> u.Username, Password |-> p.Password, Url |-> l.Url] :
        u \in {old, new}, p \in {old, new}, l \in {old, new}}

\* what the worker of w may read of solrClient: what is stored, or a mix while another
\* worker is about to store its own
ReadClient(w) ==
    {solrClient} \cup
        UNION {Mixes(solrClient, reconciles[u].sc) :
                 u \in {v \in Sets \ {w} : reconciles[v].pc = "store"}}

\* InitializeSolrCluster, line 281: if solrClient == (solr.SolrClient{})
TestSolrClient(w) ==
    /\ reconciles[w].pc = "idle"
    /\ \E read \in ReadClient(w) :
        reconciles' = [reconciles EXCEPT
                         ![w] = [pc |-> IF read = ZeroSolrClient THEN "make" ELSE "fetch",
                                 sc |-> ZeroSolrClient, err |-> "", sent |-> {}]]
    /\ UNCHANGED <<otherSet, object, configMaps, secretExists, engine, solrClient, pc, cs,
                   snapshot, pending, result, calls, events, trace, clock, budget, pureIn,
                   pureOut>>

\* InitializeSolrCluster, lines 283-285: sc, err := r.makeSolrClient(...)
MakeSolrClient(w) ==
    /\ reconciles[w].pc = "make"
    /\ LET made == makeSolrClient(SpecOf(w).SecretRef, SpecOf(w).SolrClusterUrl, secretExists)
       IN  reconciles' = [reconciles EXCEPT ![w].pc = "store", ![w].sc = made.solrClient,
                                             ![w].err = made.err]
    /\ UNCHANGED <<otherSet, object, configMaps, secretExists, engine, solrClient, pc, cs,
                   snapshot, pending, result, calls, events, trace, clock, budget, pureIn,
                   pureOut>>

\* InitializeSolrCluster, lines 286-289: solrClient = sc, and the return on an error
StoreSolrClient(w) ==
    /\ reconciles[w].pc = "store"
    /\ solrClient' = reconciles[w].sc
    /\ reconciles' = [reconciles EXCEPT
                        ![w].pc = IF reconciles[w].err # "" THEN "idle" ELSE "fetch"]
    /\ UNCHANGED <<otherSet, object, configMaps, secretExists, engine, pc, cs, snapshot,
                   pending, result, calls, events, trace, clock, budget, pureIn, pureOut>>

\* InitializeSolrCluster, lines 293-296: solrClient.GetClusterStatus(ctx), which may fail
FetchClusterStatus(w) ==
    /\ reconciles[w].pc = "fetch"
    /\ \E read \in ReadClient(w), ok \in BOOLEAN :
        reconciles' = [reconciles EXCEPT ![w].pc = IF ok THEN "calls" ELSE "idle",
                                         ![w].sent = @ \cup {read.Url}]
    /\ UNCHANGED <<otherSet, object, configMaps, secretExists, engine, solrClient, pc, cs,
                   snapshot, pending, result, calls, events, trace, clock, budget, pureIn,
                   pureOut>>

\* a later call of the pass: each is a method call on the package's solrClient
CallSolrClient(w) ==
    /\ reconciles[w].pc = "calls"
    /\ \E read \in ReadClient(w) :
        reconciles' = [reconciles EXCEPT ![w].sent = @ \cup {read.Url}]
    /\ UNCHANGED <<otherSet, object, configMaps, secretExists, engine, solrClient, pc, cs,
                   snapshot, pending, result, calls, events, trace, clock, budget, pureIn,
                   pureOut>>

\* the pass returns
ReturnFromPass(w) ==
    /\ reconciles[w].pc = "calls"
    /\ reconciles' = [reconciles EXCEPT ![w].pc = "idle"]
    /\ UNCHANGED <<otherSet, object, configMaps, secretExists, engine, solrClient, pc, cs,
                   snapshot, pending, result, calls, events, trace, clock, budget, pureIn,
                   pureOut>>

\* the basic auth Secret is created
SecretCreated ==
    /\ ~secretExists
    /\ secretExists' = TRUE
    /\ UNCHANGED <<reconciles, otherSet, object, configMaps, engine, solrClient, pc, cs,
                   snapshot, pending, result, calls, events, trace, clock, budget, pureIn,
                   pureOut>>

\* the operator has started: no client yet, the workers at rest
ClientInit ==
    /\ reconciles = AtRest
    /\ solrClient = ZeroSolrClient
    /\ secretExists \in BOOLEAN
    /\ object = [exists |-> TRUE, spec |-> FullSpecOfX, status |-> ZeroStatus]
    /\ cs = [spec |-> FullSpecOfX, status |-> ZeroStatus]
    /\ otherSet = OtherSet(SpecOfBar)
    /\ configMaps = GoodConfigMaps
    /\ engine = EmptyCluster
    /\ pc = "idle"
    /\ snapshot = NoClusterStatus
    /\ pending = FALSE
    /\ result = requeue
    /\ calls = <<>>
    /\ events = <<>>
    /\ trace = NoTrace
    /\ clock = 1
    /\ budget = [env |-> 0, faults |-> 0]
    /\ pureIn = <<>>
    /\ pureOut = [op |-> "none"]

ClientNext ==
    \/ \E w \in Sets : TestSolrClient(w)
    \/ \E w \in Sets : MakeSolrClient(w)
    \/ \E w \in Sets : StoreSolrClient(w)
    \/ \E w \in Sets : FetchClusterStatus(w)
    \/ \E w \in Sets : CallSolrClient(w)
    \/ \E w \in Sets : ReturnFromPass(w)
    \/ SecretCreated

\* the workers of two sets, one pass of each at a time, interleaved
ClientSpec == ClientInit /\ [][ClientNext]_vars

-----------------------------------------------------------------------------
(* The properties *)

\* the calls of the pass that change the cluster
Mutations == {i \in 1..Len(calls) : calls[i].op \in MutatingOps}

\* whether the persisted Stable condition has this status and this reason
StableIs(status, reason) ==
    \E i \in 1..Len(object.status.Conditions) :
        /\ object.status.Conditions[i].Type = typeSolrCollectionSetStable
        /\ object.status.Conditions[i].Status = status
        /\ object.status.Conditions[i].Reason = reason

\* a pass has run to its end without a call that changes the cluster, and the
\* persisted Stable condition is True with the reason stable
Converged ==
    /\ pc = "idle"
    /\ trace.finished
    /\ Mutations = {}
    /\ StableIs("True", reasonSolrCollectionSetStable)

\* passes go on: again and again one is in flight, and again and again one has run to
\* its end
PassesGoOn ==
    /\ []<>(pc # "idle")
    /\ []<>(pc = "idle" /\ trace.finished)

\* C1: Convergence.  When nothing outside the operator changes the cluster, the
\* ConfigMaps or the spec, and no call fails, then after finitely many passes a pass is
\* reached that issues no mutation and leaves the persisted Stable condition True with
\* the reason stable.
C1_Convergence == PassesGoOn => <>Converged

\* C2: Status non-flap (document).  A pass over the same spec and the same cluster
\* snapshot as the pass before it, reading the status that pass left persisted,
\* computes a structurally equal status document and issues no status patch.
C2_StatusNonFlapDocument == trace.unchanged => ~trace.patched

\* C3: Status non-flap (events).  A pass whose spec, persisted status and cluster
\* snapshot are unchanged from the pass before it emits no event from its status
\* step, also when the set is still unstable.
C3_StatusNonFlapEvents == trace.unchanged => ~trace.emitted

\* the last AddReplicas or RemoveReplicas call of the pass
LastAdjustment ==
    LET adjustments == {i \in 1..Len(calls) : calls[i].op \in {"AddReplicas", "RemoveReplicas"}}
    IN  calls[CHOOSE i \in adjustments : \A j \in adjustments : j <= i]

\* C4: Backpressure result.  When an AddReplicas call of the replica-adjustment step is
\* answered with the insufficient-capacity signal, the step returns scaling = true
\* with a nil error, and that call is the last AddReplicas or RemoveReplicas call of
\* the pass.
C4_BackpressureResult ==
    (pc = "idle" /\ Backpressure(calls)) =>
        /\ trace.isScaling
        /\ trace.err = ""
        /\ LastAdjustment.res = "backpressure"

\* C5: Backpressure disposition.  A pass that ends because of the
\* insufficient-capacity signal does not leave the Stable condition with the reason
\* errorEncountered, and returns a requeue after the 20-second backoff.
C5_BackpressureDisposition ==
    (pc = "idle" /\ Backpressure(calls)) =>
        /\ ~StableIs("False", reasonSolrCollectionSetReconcileError)
        /\ result = [RequeueAfter |-> backoffRequeueSeconds * 1000]

\* C6: Cleanup gating.  Every DeleteCollection call of a pass is for a collection of
\* the pass's cluster snapshot that is absent from the desired instances of the pass's
\* spec and does not begin with "_", in a pass whose spec has cleanupEnabled true; with
\* cleanupEnabled false a pass deletes no collection and no alias.
C6_CleanupGating ==
    \A i \in 1..Len(calls) :
        /\ calls[i].op \in {"DeleteCollection", "DeleteAlias"} =>
                cs.spec.CleanupEnabled = Ptr(TRUE)
        /\ calls[i].op = "DeleteCollection" =>
                /\ calls[i].name \in DOMAIN snapshot.Collections
                /\ calls[i].name \notin
                       DOMAIN mapCollections(cs.spec.Collections,
                                             Deref(cs.spec.BlueGreenEnabled))
                /\ ~HasPrefix(calls[i].name, "_")

\* a pass with cleanup on has deleted a collection of the cluster that its spec does
\* not name
C6_Witness ==
    \E i \in 1..Len(calls) :
        /\ calls[i].op = "DeleteCollection"
        /\ calls[i].name = "y"
        /\ calls[i].res = "ok"
        /\ "y" \notin DOMAIN engine.collections

\* C7: Reserved immunity.  No pass issues DeleteCollection for a collection whose name
\* begins with "_", nor DeleteAlias for an alias that points at such a collection in
\* the pass's cluster snapshot.
C7_ReservedImmunity ==
    \A i \in 1..Len(calls) :
        /\ calls[i].op = "DeleteCollection" => ~HasPrefix(calls[i].name, "_")
        /\ (calls[i].op = "DeleteAlias" /\ calls[i].name \in DOMAIN snapshot.Aliases) =>
                ~HasPrefix(snapshot.Aliases[calls[i].name], "_")

\* C8: Checksum round-trip.  Once a pass has uploaded a config set from a blob and
\* written its checksum record, a later pass that sees the same blob, the config set
\* in the cluster and the record does not upload the config set again.
C8_ChecksumRoundTrip == ~trace.reupload

\* a later pass has seen the blob, the config set and the record of an earlier upload,
\* and has gone through its config set step without uploading
C8_Witness ==
    /\ trace.kept
    /\ "x" \in DOMAIN trace.written
    /\ engine.checksums["x"] = checksum(trace.written["x"])

\* whether WithDefaults has something to fill in
SomeUnset(spec) ==
    \/ spec.Active = Nil
    \/ spec.BlueGreenEnabled = Nil
    \/ spec.CleanupEnabled = Nil
    \/ spec.ReplicationFactor = Nil
    \/ \E i \in 1..Len(spec.Collections) :
            spec.Collections[i].Alias = "" \/ spec.Collections[i].ConfigsetName = ""

\* C9: Defaulting is idempotent.  WithDefaults returns changed = true exactly when a
\* field of the spec was unset; applied to its own result it returns changed = false
\* and leaves the spec as it is.
C9_DefaultingIdempotent ==
    pureOut.op = "WithDefaults" =>
        /\ pureOut.first.changed <=> SomeUnset(pureIn)
        /\ ~pureOut.second.changed
        /\ pureOut.second.spec = pureOut.first.spec
        /\ ~SomeUnset(pureOut.first.spec)

\* WithDefaults has filled in a scalar field and the alias and the config set name
\* of a collection
C9_Witness ==
    /\ pureOut.op = "WithDefaults"
    /\ pureOut.first.changed
    /\ pureIn.Active = Nil
    /\ \E i \in 1..Len(pureIn.Collections) :
        /\ pureIn.Collections[i].Alias = ""
        /\ pureIn.Collections[i].ConfigsetName = ""
        /\ pureOut.first.spec.Collections[i].ConfigsetName = pureIn.Collections[i].Name

\* C10: Expansion doubling.  For pairwise distinct collection names the desired
\* instances are one <name>_blue and one <name>_green per collection of the spec when
\* blue/green is on, 2 * n in all, and the plain names when it is off, n in all; the
\* count is the desired count of readyRatio.
C10_ExpansionDoubling ==
    pureOut.op = "mapCollections" =>
        LET n == Len(pureIn.Collections)
            names == {pureIn.Collections[i].Name : i \in 1..n}
            keys == DOMAIN pureOut.storage
        IN  /\ IF pureOut.isBlueGreenEnabled
               THEN /\ keys = {name \o "_blue" : name \in names}
                                \cup {name \o "_green" : name \in names}
                    /\ Cardinality(keys) = 2 * n
                    /\ \A i \in 1..n :
                        /\ pureOut.storage[pureIn.Collections[i].Name \o "_blue"]
                                = pureIn.Collections[i]
                        /\ pureOut.storage[pureIn.Collections[i].Name \o "_green"]
                                = pureIn.Collections[i]
               ELSE /\ keys = names
                    /\ Cardinality(keys) = n
                    /\ \A i \in 1..n :
                        pureOut.storage[pureIn.Collections[i].Name] = pureIn.Collections[i]
            /\ pureOut.count = Cardinality(keys)

\* two collections have been expanded to their four instances
C10_Witness ==
    /\ pureOut.op = "mapCollections"
    /\ pureOut.isBlueGreenEnabled
    /\ Len(pureIn.Collections) = 2
    /\ Cardinality(DOMAIN pureOut.storage) = 4

\* the multiset of the elements of a sequence
BagOf(seq) == [x \in Range(seq) |-> Cardinality({i \in 1..Len(seq) : seq[i] = x})]

\* a call as it was asked, whatever the answer
Asked(c) == [op |-> c.op, name |-> c.name, target |-> c.target, n |-> c.n]

\* the buckets of ManageCollections: the creates with their alias assignments, the
\* alias deletes, the collection deletes, the replication factor adjustments
Buckets ==
    {{"CreateCollection", "AssignAlias"}, {"DeleteAlias"}, {"DeleteCollection"},
     {"SetReplicationFactor"}}

\* the multiset of the calls of a log that fall in a bucket; the create of the checksum
\* collection is InitializeSolrCluster's
BucketOf(log, ops) ==
    LET InBucket(c) == c.op \in ops /\ c.name # checksumsCollectionName
        bucket == SelectSeq(log, InBucket)
    IN  BagOf([i \in 1..Len(bucket) |-> Asked(bucket[i])])

\* C11: Planner commutativity.  For the spec and the cluster snapshot of a pass, every
\* order in which the ranges of ManageCollections may walk the alias map, the creates,
\* the alias deletes, the collection deletes and the adjustments yields, bucket by
\* bucket, the multiset of calls that the pass has issued.
C11_PlannerCommutativity ==
    (pc = "idle" /\ trace.finished) =>
        \A aliasOrder \in Orders(DOMAIN snapshot.Aliases) :
            LET sameBuckets(log) ==
                    \A ops \in Buckets : BucketOf(log, ops) = BucketOf(calls, ops)
                sameForOrders(plan) ==
                    \A createOrder \in Orders(DOMAIN plan.creates),
                       aliasKeyOrder \in Orders(DOMAIN plan.deleteAliases),
                       deleteOrder \in Orders(plan.deletes),
                       adjustOrder \in Orders(plan.adjust) :
                        sameBuckets(ManageCollections(Run(engine, <<>>), cs.spec,
                                                      snapshot.Aliases, plan, createOrder,
                                                      aliasKeyOrder, deleteOrder, adjustOrder,
                                                      {}).run.calls)
            IN  sameForOrders(collectionPlan(cs.spec, snapshot.Collections, snapshot.Aliases,
                                             aliasOrder))

\* a pass has created the green instance before the blue one, each with its alias
\* assignment
C11_Witness ==
    /\ pc = "idle"
    /\ trace.finished
    /\ \E i, j \in 1..Len(calls) :
        /\ i < j
        /\ calls[i].op = "AssignAlias" /\ calls[i].target = "x_green"
        /\ calls[j].op = "AssignAlias" /\ calls[j].target = "x_blue"

\* whether the pass has made this call and the cluster has answered it well
Succeeded(op, name, target) ==
    \E i \in 1..Len(calls) :
        /\ calls[i].op = op /\ calls[i].name = name /\ calls[i].target = target
        /\ calls[i].res = "ok"

\* C12: Alias tie-break.  When a pass with blue/green on creates both x_blue and
\* x_green, the alias x not being in its snapshot, the alias points at x_blue once the
\* pass has ended, whatever the order of the creates.
C12_AliasTieBreak ==
    (/\ pc = "idle"
     /\ trace.finished
     /\ "x" \notin DOMAIN snapshot.Aliases
     /\ Succeeded("CreateCollection", "x_blue", "x")
     /\ Succeeded("CreateCollection", "x_green", "x")
     /\ Succeeded("AssignAlias", "x", "x_blue")
     /\ Succeeded("AssignAlias", "x", "x_green")) =>
        /\ "x" \in DOMAIN engine.aliases
        /\ engine.aliases["x"] = "x_blue"

\* whether both instances of x are in the pass's snapshot with as many replicas as
\* their replication factor, which is the spec's
InstancesSettled ==
    \A name \in {"x_blue", "x_green"} :
        /\ name \in DOMAIN snapshot.Collections
        /\ snapshot.Collections[name].ReplicationFactor = Deref(cs.spec.ReplicationFactor)
        /\ snapshot.Collections[name].ReplicaCount = snapshot.Collections[name].ReplicationFactor

\* C13: Unmanaged extra collection.  With cleanup off and blue/green on, both instances
\* of x being settled, a collection y of the cluster that the spec does not name leaves
\* the status that UpdateStatus persists with readyRatio 2/2 and Stable True with the
\* reason stable.
C13_UnmanagedExtraCollection ==
    (/\ pc = "configsets"
     /\ cs.spec.CleanupEnabled = Ptr(FALSE)
     /\ cs.spec.BlueGreenEnabled = Ptr(TRUE)
     /\ InstancesSettled
     /\ "y" \in DOMAIN snapshot.Collections) =>
        /\ object.status.ReadyRatio = "2/2"
        /\ StableIs("True", reasonSolrCollectionSetStable)

\* C14: Paused set.  No step taken while the spec of the set has active = false makes
\* an engine call, writes to the status or emits an event: through every reconcile pass
\* of a paused set, its first with the conditions still empty included, the status
\* stays as it was and the pass's calls and events stay empty.
C14_PausedSet ==
    [][(object.exists /\ object.spec.Active = Ptr(FALSE)) =>
            /\ object'.status = object.status
            /\ calls' = <<>>
            /\ events' = <<>>]_vars

\* C15: Requeue policy.  Every pass that has gone through ManageCollections and
\* AdjustReplicas without an error returns a result that schedules a further pass:
\* RequeueAfter is set, to the immediate requeue, to the backoff or to the default
\* cadence.
C15_RequeuePolicy ==
    (pc = "idle" /\ trace.finished /\ trace.err = "") =>
        /\ result.RequeueAfter > 0
        /\ trace.isScaling => result = requeueWithBackoff

\* whether the persisted Stable condition is False with the reason errorEncountered and
\* this message
StableIsError(message) ==
    \E i \in 1..Len(object.status.Conditions) :
        /\ object.status.Conditions[i].Type = typeSolrCollectionSetStable
        /\ object.status.Conditions[i].Status = "False"
        /\ object.status.Conditions[i].Reason = reasonSolrCollectionSetReconcileError
        /\ object.status.Conditions[i].Message = message

\* C16: Error path.  A pass that has failed in InitializeSolrCluster, UpdateStatus,
\* ManageConfigSets or AdjustReplicas leaves the persisted Stable condition False with
\* the reason errorEncountered and the error's text as its message, and returns a
\* requeue with backoff.
C16_ErrorPath ==
    (pc = "idle" /\ trace.err # "" /\ object.exists) =>
        /\ StableIsError(trace.err)
        /\ result = requeueWithBackoff

\* the desired instances of the pass's spec
DesiredInstances ==
    DOMAIN mapCollections(cs.spec.Collections, Deref(cs.spec.BlueGreenEnabled))

\* whether every desired instance is in the pass's snapshot with this replication
\* factor and this many replicas
InstancesAt(replicationFactor, replicaCount) ==
    \A name \in DesiredInstances :
        /\ name \in DOMAIN snapshot.Collections
        /\ snapshot.Collections[name].ReplicationFactor = replicationFactor
        /\ snapshot.Collections[name].ReplicaCount = replicaCount

\* whether the pass has made this call with this count
Called(op, name, n) ==
    \E i \in 1..Len(calls) : calls[i].op = op /\ calls[i].name = name /\ calls[i].n = n

\* whether the cluster of the snapshot holds no collection of its own but the desired
\* instances
OnlyDesired ==
    {name \in DOMAIN snapshot.Collections : ~HasPrefix(name, "_")} = DesiredInstances

\* whether the status step of the pass has read the spec the pass now holds (its
\* re-fetch has not brought a newer one)
StatusOfSpec == trace.prev # Nil /\ trace.prev[1].spec = cs.spec

DesiredMap == mapCollections(cs.spec.Collections, Deref(cs.spec.BlueGreenEnabled))

\* whether the pass's snapshot holds the alias of the instance, on an instance of the
\* same collection
AliasInPlace(name) ==
    /\ DesiredMap[name].Alias \in DOMAIN snapshot.Aliases
    /\ \E other \in DOMAIN DesiredMap :
        /\ DesiredMap[other].Alias = DesiredMap[name].Alias
        /\ snapshot.Aliases[DesiredMap[name].Alias] = other

\* C18: Blue/green invariant at the fixpoint.  Whenever a pass on a set with blue/green
\* on has run through the executor without a call that changes the cluster, every
\* desired instance (<name>_blue and <name>_green of every spec collection) exists and
\* the alias of its collection exists and points at one of the two.
C18_BlueGreenFixpoint ==
    (/\ pc = "idle"
     /\ object.exists
     /\ trace.finished
     /\ trace.err = ""
     /\ cs.spec.BlueGreenEnabled = Ptr(TRUE)
     /\ Mutations = {}) =>
        \A name \in DOMAIN DesiredMap :
            /\ name \in DOMAIN snapshot.Collections
            /\ AliasInPlace(name)


\* the desired instances of a spec, its defaults filled in
InstancesOf(spec) ==
    LET instances(defaulted) ==
            DOMAIN mapCollections(defaulted.Collections, Deref(defaulted.BlueGreenEnabled))
    IN  instances(WithDefaults(spec).spec)

\* the collection names of a spec
NamesOf(spec) == {spec.Collections[i].Name : i \in 1..Len(spec.Collections)}

\* whether cleanup is on in a spec, its defaults filled in
CleanupOn(spec) == WithDefaults(spec).spec.CleanupEnabled = Ptr(TRUE)

\* whether a pass with this log has deleted one of these collections
Deleted(log, names) ==
    \E i \in 1..Len(log) :
        /\ log[i].op = "DeleteCollection"
        /\ log[i].res = "ok"
        /\ log[i].name \in names

\* C19 as the claim has it: Two CollectionSets on one engine.  When at most one of the
\* two sets has cleanupEnabled = true, or their collection names are disjoint, no pass
\* of one set deletes a collection that is a desired instance of the other.
C19_TwoSets ==
    (/\ otherSet.exists
     /\ \/ ~(CleanupOn(object.spec) /\ CleanupOn(otherSet.spec))
        \/ NamesOf(object.spec) \cap NamesOf(otherSet.spec) = {}) =>
        /\ ~Deleted(calls, InstancesOf(otherSet.spec))
        /\ ~Deleted(otherSet.calls, InstancesOf(object.spec))

\* C19, amended: no pass of a set whose cleanupEnabled is false deletes a collection
\* that is a desired instance of the other set; with cleanup off in both, neither set
\* deletes a collection of the other.
C19_TwoSetsAmended ==
    otherSet.exists =>
        /\ ~CleanupOn(object.spec) => ~Deleted(calls, InstancesOf(otherSet.spec))
        /\ ~CleanupOn(otherSet.spec) => ~Deleted(otherSet.calls, InstancesOf(object.spec))

\* both sets without cleanup, each has created its instances, and a pass of each has
\* since run with the other's instances in the cluster it read
C19_Witness ==
    /\ otherSet.exists
    /\ ~CleanupOn(object.spec)
    /\ ~CleanupOn(otherSet.spec)
    /\ pc = "idle"
    /\ trace.finished
    /\ InstancesOf(otherSet.spec) \subseteq DOMAIN snapshot.Collections
    /\ InstancesOf(object.spec) \subseteq DOMAIN engine.collections
    /\ otherSet.pc = "idle"
    /\ \E i \in 1..Len(otherSet.calls) : otherSet.calls[i].op = "CreateCollection"


\* the collections of a cluster status that are not reserved
Observed(clusterStatus) ==
    {name \in DOMAIN clusterStatus.Collections : ~HasPrefix(name, "_")}

\* whether a spec and a cluster status are aligned: as many observed collections as
\* desired instances, each with the spec's replication factor and that many replicas
Aligned(spec, clusterStatus) ==
    /\ Len(spec.Collections) * (IF Deref(spec.BlueGreenEnabled) THEN 2 ELSE 1)
            = Cardinality(Observed(clusterStatus))
    /\ \A name \in Observed(clusterStatus) :
        /\ clusterStatus.Collections[name].ReplicationFactor = Deref(spec.ReplicationFactor)
        /\ clusterStatus.Collections[name].ReplicaCount
                = clusterStatus.Collections[name].ReplicationFactor

\* the statuses of the Stable conditions of a status
StableStatuses(status) ==
    {status.Conditions[i].Status :
        i \in {j \in 1..Len(status.Conditions) :
                    status.Conditions[j].Type = typeSolrCollectionSetStable}}

\* C20: Stability predicate.  The status a pass computes from a spec and a cluster
\* status has Stable True if and only if the desired instance count equals the number of
\* observed non-reserved collections and each of these has the spec's replication
\* factor and as many replicas as its replication factor; otherwise Stable is False.
C20_StabilityPredicate ==
    trace.prev # Nil =>
        StableStatuses(trace.prev[1].status) =
            {IF Aligned(trace.prev[1].spec, trace.prev[1].snapshot) THEN "True" ELSE "False"}

\* a pass has computed Stable True for a cluster that holds both instances of x, after
\* a pass that computed Stable False
C20_Witness ==
    /\ pc = "configsets"
    /\ trace.prev # Nil
    /\ Observed(trace.prev[1].snapshot) = {"x_blue", "x_green"}
    /\ StableStatuses(trace.prev[1].status) = {"True"}
    /\ clock > 1


\* the reason the priority of the specification gives for a spec and a cluster status
PriorityReason(spec, clusterStatus) ==
    LET collections == clusterStatus.Collections
        observed == Observed(clusterStatus)
        desired == Len(spec.Collections) * (IF Deref(spec.BlueGreenEnabled) THEN 2 ELSE 1)
    IN  IF Aligned(spec, clusterStatus) THEN {reasonSolrCollectionSetStable}
        ELSE IF \E name \in observed :
                    collections[name].ReplicationFactor # Deref(spec.ReplicationFactor)
             THEN {reasonSolrCollectionReplicationFactorMismatch}
        ELSE IF \E name \in observed :
                    collections[name].ReplicaCount # collections[name].ReplicationFactor
             THEN {reasonSolrCollectionSetScalingOut, reasonSolrCollectionSetScalingIn}
        ELSE IF desired > Cardinality(observed)
             THEN {reasonSolrCollectionAddingCollections}
             ELSE {reasonSolrCollectionRemovingCollections}

\* C21: Reason priority.  The reason of the Stable condition a pass computes is chosen
\* by a fixed priority, whatever the order of the walk: stable when the spec and the
\* cluster are aligned, else replicationFactorMismatch if an observed collection's
\* replication factor differs from the spec's, else scalingOut or scalingIn if a
\* replica count differs from its replication factor, else addingCollections or
\* removingCollections.
C21_ReasonPriority ==
    trace.prev # Nil =>
        \A i \in 1..Len(trace.prev[1].status.Conditions) :
            trace.prev[1].status.Conditions[i].Type = typeSolrCollectionSetStable =>
                trace.prev[1].status.Conditions[i].Reason
                    \in PriorityReason(trace.prev[1].spec, trace.prev[1].snapshot)


\* C22: Active flag.  In the status a pass computes, the entry of an instance the
\* cluster holds has active = true if and only if blue/green is off or an alias points
\* at an instance (_blue or _green) of the entry's spec name.
C22_ActiveFlag ==
    trace.prev # Nil =>
        \A i \in 1..Len(trace.prev[1].status.SolrCollections) :
            LET entry == trace.prev[1].status.SolrCollections[i]
                aliases == trace.prev[1].snapshot.Aliases
            IN  entry.Exists =>
                    (entry.Active <=>
                        \/ ~Deref(trace.prev[1].spec.BlueGreenEnabled)
                        \/ \E a \in DOMAIN aliases :
                            aliases[a] \in {entry.Name \o "_blue", entry.Name \o "_green"})


\* C23: Spec not found.  A pass whose Get finds no SolrCollectionSet ends at once: no
\* error, no engine call, no status write, no event, and the cluster is left as it was.
C23_SpecNotFound ==
    [][(pc = "idle" /\ pending /\ ~pending' /\ ~object.exists) =>
            /\ pc' = "idle"
            /\ object' = object
            /\ engine' = engine
            /\ calls' = <<>>
            /\ events' = <<>>
            /\ trace'.err = ""
            /\ ~trace'.patched]_vars

\* the set was deleted after its instances were created, and the pass that the
\* deletion queued has run
C23_Witness ==
    /\ ~object.exists
    /\ pc = "idle"
    /\ ~pending
    /\ "x_blue" \in DOMAIN engine.collections
    /\ calls = <<>>


\* the bucket of an executor call, in the order of the specification
BucketRank(c) ==
    CASE c.op \in {"UploadConfigSet", "WriteRecord", "DeleteConfigSet"} -> 1
      [] c.op \in {"CreateCollection", "AssignAlias"} -> 2
      [] c.op = "DeleteAlias" -> 3
      [] c.op = "DeleteCollection" -> 4
      [] c.op = "SetReplicationFactor" -> 5
      [] OTHER -> 6

\* the executor's calls of the pass: the calls that change the cluster, but for the
\* two of the bootstrap (the reserved config set and the checksum collection)
ExecutorCalls ==
    {i \in Mutations :
        /\ ~(calls[i].op = "UploadConfigSet" /\ calls[i].name = configChecksumsConfigSetName)
        /\ ~(calls[i].op = "CreateCollection" /\ calls[i].name = checksumsCollectionName)}

C25_AliasDeleteFirst ==
    (pc = "idle" /\ trace.finished /\ cs.spec.CleanupEnabled = Ptr(TRUE)) =>
        \A name \in Observed(snapshot) \ DesiredInstances :
            (\E a \in DOMAIN snapshot.Aliases : snapshot.Aliases[a] = name) =>
                \E i, j \in 1..Len(calls) :
                    /\ i < j
                    /\ calls[i].op = "DeleteAlias"
                    /\ calls[i].name \in DOMAIN snapshot.Aliases
                    /\ snapshot.Aliases[calls[i].name] = name
                    /\ calls[j].op = "DeleteCollection"
                    /\ calls[j].name = name


\* whether the pass has made this call on this name, whatever the answer
Issued(ops, name) == \E i \in 1..Len(calls) : calls[i].op \in ops /\ calls[i].name = name

\* C26: No short-circuit inside a bucket.  A pass that has run ManageCollections has
\* issued every call its plan queued, and a pass that has run AdjustReplicas without
\* the insufficient-capacity signal has issued the call of every adjustment queued,
\* whether or not a call of the bucket failed.
C26_NoShortCircuit ==
    (pc = "idle" /\ trace.finished /\ ~Backpressure(calls)) =>
        LET plan == collectionPlan(cs.spec, snapshot.Collections, snapshot.Aliases,
                                   CHOOSE o \in Orders(DOMAIN snapshot.Aliases) : TRUE)
        IN  /\ \A name \in DOMAIN plan.creates : Issued({"CreateCollection"}, name)
            /\ \A name \in DOMAIN plan.deleteAliases : Issued({"DeleteAlias"}, name)
            /\ \A name \in plan.deletes : Issued({"DeleteCollection"}, name)
            /\ \A name \in plan.adjust : Issued({"SetReplicationFactor"}, name)
            /\ (\A i \in ExecutorCalls : BucketRank(calls[i]) \notin 2..5) =>
                    \A name \in DOMAIN adjustReplicas(cs.spec, snapshot.Collections) :
                        Issued({"AddReplicas", "RemoveReplicas"}, name)


\* the calls of ManageCollections in the pass's log that the cluster refused
FailedCollectionCalls ==
    {i \in ExecutorCalls : BucketRank(calls[i]) \in 2..5 /\ calls[i].res # "ok"}

\* C27: Failures surface in the condition.  A pass in which a call of ManageCollections
\* (CreateCollection, AssignAlias, DeleteAlias, DeleteCollection, SetReplicationFactor)
\* failed returns an error, and the persisted Stable condition after it is False.
C27_FailuresSurface ==
    (pc = "idle" /\ trace.finished /\ object.exists /\ FailedCollectionCalls # {}) =>
        /\ trace.err # ""
        /\ StableStatuses(object.status) = {"False"}


\* C28: changed requires a success.  A pass ends in ManageCollections with
\* changed = true, and is requeued at once, only if one of the calls ManageCollections
\* made in it succeeded.
C28_ChangedRequiresSuccess ==
    (pc = "idle" /\ trace.finished /\ trace.err = "" /\ result = requeueImmediately) =>
        \E i \in ExecutorCalls : BucketRank(calls[i]) \in 2..5 /\ calls[i].res = "ok"


\* C29: Bootstrap.  The step of a pass that runs InitializeSolrCluster and reads the
\* cluster status uploads the _checksums config set, and then creates the checksum
\* collection, if and only if the collection is absent from that status; it emits
\* one Initializing event if it created the collection and none otherwise; and when
\* the collection exists it changes nothing in the cluster.
C29_Bootstrap ==
    [][(/\ pc = "init"
        /\ Len(calls') > 0
        /\ calls'[1].op = "GetClusterStatus"
        /\ calls'[1].res = "ok") =>
            LET absent == checksumsCollectionName \notin DOMAIN engine.collections
                uploaded == \E i \in 1..Len(calls') :
                                /\ calls'[i].op = "UploadConfigSet"
                                /\ calls'[i].name = configChecksumsConfigSetName
                created == \E i \in 1..Len(calls') :
                                /\ calls'[i].op = "CreateCollection"
                                /\ calls'[i].name = checksumsCollectionName
                                /\ calls'[i].res = "ok"
                initializing == {i \in 1..Len(events') :
                                    events'[i].Type = eventSolrCollectionSetInitializing}
            IN  /\ uploaded <=> absent
                /\ created => absent
                /\ Cardinality(initializing) = (IF created THEN 1 ELSE 0)
                /\ ~absent => engine' = engine]_vars


\* the blobs of the ConfigMaps labelled for a collection
BlobsOf(collection) ==
    {configMaps[k].configset :
        k \in {j \in 1..Len(configMaps) :
                /\ "collection" \in DOMAIN configMaps[j].Labels
                /\ configMaps[j].Labels["collection"] = collection}}

\* C30: Checksum write follows a successful upload.  A checksum record is written only
\* right after a successful upload of its config set in the same pass, and it holds the
\* md5 of the base64 blob; a stored checksum changes only through such a write; and
\* a pass whose config set step ends without error has uploaded, and recorded, every
\* labelled config set whose stored checksum was missing or different, as it is after
\* an upload whose checksum write failed.
C30_ChecksumAfterUpload ==
    [][LET log == SubSeq(calls', Len(calls) + 1, Len(calls'))
           stale(c) == \/ c \notin DOMAIN engine.checksums
                       \/ \E blob \in BlobsOf(c) : engine.checksums[c] # checksum(blob)
       IN  /\ \A c \in DOMAIN engine'.checksums :
                (c \notin DOMAIN engine.checksums \/ engine'.checksums[c] # engine.checksums[c])
                    => pc = "configsets" /\ UploadedAndWritten(log, c)
           /\ (pc = "configsets" /\ pc' # "configsets") =>
                /\ \A i \in 1..Len(log) :
                    log[i].op = "WriteRecord" =>
                        /\ i > 1
                        /\ log[i - 1].op = "UploadConfigSet"
                        /\ log[i - 1].name = log[i].target
                        /\ log[i - 1].res = "ok"
                        /\ \E blob \in BlobsOf(log[i].target) : log[i].sum = checksum(blob)
                /\ trace'.err = "" =>
                    \A k \in 1..Len(configMaps) :
                        stale(configMaps[k].Labels["collection"]) =>
                            UploadedAndWritten(log, configMaps[k].Labels["collection"])]_vars

\* a pass has uploaded the config set of x and failed to write its checksum: the
\* cluster holds the config set and no record of it
C30_Witness ==
    /\ pc = "idle"
    /\ trace.err = "could not write checksum for collection x"
    /\ Uploaded(calls, "x")
    /\ "x" \in engine.configsets
    /\ "x" \notin DOMAIN engine.checksums

\* the collections the ConfigMaps of the set are labelled for
Sources ==
    {configMaps[k].Labels["collection"] :
        k \in {j \in 1..Len(configMaps) : "collection" \in DOMAIN configMaps[j].Labels}}

\* whether the cluster lacks the config set, or its record, or holds a record that
\* differs from the md5 of the source's blob
Drifted(c) ==
    \/ c \notin engine.configsets
    \/ c \notin DOMAIN engine.checksums
    \/ \E blob \in BlobsOf(c) : engine.checksums[c] # checksum(blob)

\* C31: Configset drift detection.  The config set step of a pass uploads nothing but
\* sources of the set, and a source only if the cluster lacks its config set, or its
\* checksum record, or the record differs from the md5 of the source's base64 blob;
\* a step that ends without error has uploaded every such source.
C31_DriftDetection ==
    [][(pc = "configsets" /\ pc' # "configsets") =>
            LET log == SubSeq(calls', Len(calls) + 1, Len(calls'))
            IN  /\ \A i \in 1..Len(log) :
                     log[i].op = "UploadConfigSet" =>
                         log[i].name \in Sources /\ Drifted(log[i].name)
                /\ pc' = "collections" =>
                     \A c \in Sources : Drifted(c) => Uploaded(log, c)]_vars

\* a pass has gone through its config set step without uploading x, whose config set
\* the cluster holds with the record of the blob
C31_Witness ==
    /\ pc = "collections"
    /\ ~Uploaded(calls, "x")
    /\ BlobsOf("x") = {"QUJD"}
    /\ "x" \in engine.configsets
    /\ "x" \in DOMAIN engine.checksums
    /\ engine.checksums["x"] = checksum("QUJD")

\* the calls of ManageCollections and AdjustReplicas
CollectionOps ==
    {"CreateCollection", "AssignAlias", "DeleteAlias", "DeleteCollection",
     "SetReplicationFactor", "AddReplicas", "RemoveReplicas"}

\* whether these conditions hold Stable as False with the reason errorEncountered
HasErrorCondition(conditions) ==
    \E i \in 1..Len(conditions) :
        /\ conditions[i].Type = typeSolrCollectionSetStable
        /\ conditions[i].Status = "False"
        /\ conditions[i].Reason = reasonSolrCollectionSetReconcileError
        /\ conditions[i].Message = trace.err

\* the errors ManageConfigSets returns
ConfigSetErrors ==
    {"could not get configsets", "query to collection failed",
     "config set configmap stray has no 'collection' label",
     "could not base64 decode 'configset' property",
     "could not upload configset x", "could not write checksum for collection x",
     "could not clean up config set [_default]", "could not clean up config set [x]",
     "could not clean up config set [y]", "could not clean up config set [old]"}

\* whether a call of ManageConfigSets has failed in the pass
ConfigSetCallFailed ==
    \E i \in 1..Len(calls) :
        /\ calls[i].op \in {"GetConfigSets", "Query", "UploadConfigSet", "WriteRecord",
                            "DeleteConfigSet"}
        /\ ~(calls[i].op = "UploadConfigSet" /\ calls[i].name = configChecksumsConfigSetName)
        /\ calls[i].res # "ok"

\* whether the pass has ended in its config set step, with this error
ConfigSetsFailed(error) ==
    /\ pc = "idle"
    /\ trace.err = error
    /\ \E i \in 1..Len(calls) : calls[i].op = "GetConfigSets"

\* C32: Configset failure is fatal for the pass.  A pass in which a call of
\* ManageConfigSets has failed, or which has ended with one of its errors (a source
\* without a collection label, a blob that is not base64, a failed upload, a failed
\* checksum write), has ended there: it has issued no create, delete, alias,
\* replication factor or replica call of the executor, its status holds Stable as
\* False with the reason errorEncountered and the error's text, and that status is
\* the persisted one while the object exists.
C32_ConfigSetFailureFatal ==
    (ConfigSetCallFailed \/ \E error \in ConfigSetErrors : ConfigSetsFailed(error)) =>
        /\ pc = "idle"
        /\ trace.err \in ConfigSetErrors
        /\ \A i \in ExecutorCalls : calls[i].op \notin CollectionOps
        /\ HasErrorCondition(cs.status.Conditions)
        /\ object.exists => HasErrorCondition(object.status.Conditions)

\* the condition the first pass seeds
SeedCondition(conditions) ==
    /\ Len(conditions) = 1
    /\ conditions[1].Type = typeSolrCollectionSetStable
    /\ conditions[1].Status = "Unknown"
    /\ conditions[1].Reason = reasonSolrCollectionSetInitializing

\* a pass starts on an object whose condition list is empty
SeedingStep ==
    /\ pc = "idle" /\ pending /\ object.exists
    /\ Len(object.status.Conditions) = 0
    /\ budget' = budget /\ otherSet' = otherSet

\* C33 as stated: Condition seeding.  A pass that finds the condition list empty writes
\* Stable as Unknown with the reason initializing and ends there with a requeue: it
\* writes no defaults, makes no engine call and does not go on.
C33_ConditionSeeding ==
    [][SeedingStep =>
            /\ SeedCondition(object'.status.Conditions)
            /\ object'.spec = object.spec
            /\ pc' = "idle" /\ pending'
            /\ calls' = <<>>]_vars

\* C33 as amended: a pass that finds the condition list empty writes Stable as Unknown
\* with the reason initializing, fetches the object again and goes on with the same
\* pass: when a field of the spec is unset it writes the defaults and ends with an
\* immediate requeue, without an engine call or another status write; when none is
\* unset it goes on as any other pass, an active set to the bootstrap.
C33_ConditionSeedingAmended ==
    [][SeedingStep =>
            /\ SeedCondition(object'.status.Conditions)
            /\ pending'
            /\ calls' = <<>>
            /\ IF SomeUnset(object.spec)
               THEN /\ object'.spec = WithDefaults(object.spec).spec
                    /\ ~SomeUnset(object'.spec)
                    /\ result' = requeueImmediately
                    /\ pc' = "idle"
               ELSE /\ object'.spec = object.spec
                    /\ pc' = IF Deref(object.spec.Active) THEN "init" ELSE "idle"]_vars

\* the pass that has seeded the condition of a set with every field set goes on to
\* the bootstrap
C33_Witness ==
    /\ object.spec = FullSpecOfX
    /\ pc = "init"
    /\ result = requeue
    /\ SeedCondition(object.status.Conditions)
    /\ calls = <<>>

\* the Stable condition of a status; Nil when it has none
StableOf(status) ==
    LET found == {i \in 1..Len(status.Conditions) :
                    status.Conditions[i].Type = typeSolrCollectionSetStable}
    IN  IF found = {} THEN Nil ELSE Ptr(status.Conditions[CHOOSE i \in found : TRUE])

\* C34: lastTransitionTime.  Across the status updates of the object the
\* lastTransitionTime of the Stable condition changes only when the condition's status
\* changes: an update that changes the reason or the message only keeps the time.
C34_LastTransitionTime ==
    [][(StableOf(object.status) # Nil /\ StableOf(object'.status) # Nil
            /\ Deref(StableOf(object'.status)).Status = Deref(StableOf(object.status)).Status) =>
         Deref(StableOf(object'.status)).LastTransitionTime
             = Deref(StableOf(object.status)).LastTransitionTime]_vars

\* C35: Shared engine client under concurrency.  With the workers of different sets
\* running at once, the package's client is stored once, on the first construction
\* that succeeds, and never changed afterwards; a failed construction leaves it unset.
C35_SharedClient ==
    [][/\ solrClient # ZeroSolrClient => solrClient' = solrClient
       /\ \A w \in Sets :
            (reconciles[w].pc = "store" /\ reconciles'[w].pc = "idle"
                /\ solrClient = ZeroSolrClient) => solrClient' = ZeroSolrClient]_vars

\* C38: Engine calls go to the set's own cluster.  Every call made while a set is
\* reconciled is sent to the clusterUrl of that set's spec, also when another set with
\* another clusterUrl was reconciled before.
C38_OwnCluster ==
    \A w \in Sets : reconciles[w].sent \subseteq {SpecOf(w).SolrClusterUrl}

\* whether a call of the pass got no HTTP response
NoResponse == \E i \in 1..Len(calls) : calls[i].res = "no response"

\* C36: Engine RPC failure is an error value.  A call that gets no HTTP response is
\* returned to the pass as an error: the pass does not panic, it ends on the error
\* path, with Stable as False and the reason errorEncountered persisted while the object
\* exists; and a call answered with a non-2xx status is answered with an error.
C36_FailureIsErrorValue ==
    /\ NoResponse =>
        /\ trace.err # nilDereference
        /\ trace.err # ""
        /\ object.exists => StableIsError(trace.err)
    /\ \A i \in 1..Len(calls) : calls[i].res \in {"ok", "error", "backpressure", "no response"}


\* the engine-side name of the instance a status entry stands for
InstanceOf(entry) ==
    IF Deref(cs.spec.BlueGreenEnabled) THEN entry.InstanceName ELSE entry.Name

\* whether the status has one entry for each desired instance and no other, each with
\* exists set as the snapshot has the instance
OnePerInstance(entries) ==
    /\ \A name \in DesiredInstances :
        Cardinality({i \in DOMAIN entries : InstanceOf(entries[i]) = name}) = 1
    /\ \A i \in DOMAIN entries :
        /\ InstanceOf(entries[i]) \in DesiredInstances
        /\ entries[i].Exists <=> InstanceOf(entries[i]) \in DOMAIN snapshot.Collections

\* C37: Status instance naming.  The status a pass computed for the spec it holds has
\* exactly one entry for each desired instance and none for another collection of the
\* snapshot, exists is true exactly for the instances the snapshot has, and
\* instanceName is the engine-side name with blue/green and the same as name without.
C37_StatusInstanceNaming ==
    (pc = "configsets" /\ StatusOfSpec) =>
        /\ OnePerInstance(cs.status.SolrCollections)
        /\ \A i \in DOMAIN cs.status.SolrCollections :
            LET entry == cs.status.SolrCollections[i]
            IN  IF Deref(cs.spec.BlueGreenEnabled)
                THEN entry.InstanceName \in {entry.Name \o "_blue", entry.Name \o "_green"}
                ELSE entry.InstanceName = entry.Name


\* the two calls of AdjustReplicas
ReplicaOps == {"AddReplicas", "RemoveReplicas"}

\* whether ManageCollections, on the pass's spec and snapshot, queues nothing and the
\* pass has issued none of its calls
Settled ==
    /\ \A aliasOrder \in Orders(DOMAIN snapshot.Aliases) :
        LET plan == collectionPlan(cs.spec, snapshot.Collections, snapshot.Aliases, aliasOrder)
        IN  /\ DOMAIN plan.creates = {}
            /\ DOMAIN plan.deleteAliases = {}
            /\ plan.deletes = {}
            /\ plan.adjust = {}
    /\ \A i \in ExecutorCalls : calls[i].op \notin CollectionOps \ ReplicaOps

\* whether a replica call is the one the pass's spec and snapshot ask for
OfSnapshot(call) ==
    /\ call.name \in DesiredInstances \cap DOMAIN snapshot.Collections
    /\ LET delta == Deref(cs.spec.ReplicationFactor) - snapshot.Collections[call.name].ReplicaCount
       IN  IF call.op = "AddReplicas"
           THEN delta > 0 /\ call.n = delta
           ELSE delta < 0 /\ call.n = 0 - delta

\* C39: Replica adjustment runs only on a settled snapshot.  A step of a pass issues
\* AddReplicas or RemoveReplicas only if the pass queued no collection create, alias
\* delete, collection delete or replication-factor adjustment, and only for a desired
\* instance of the snapshot, with spec.replicationFactor minus the snapshot's
\* replicaCount: AddReplicas of it when positive, RemoveReplicas of its absolute value
\* when negative.
C39_SettledSnapshot ==
    [][pc # "idle" =>
        \A i \in (Len(calls) + 1)..Len(calls') :
            calls'[i].op \in ReplicaOps => Settled /\ OfSnapshot(calls'[i])]_vars

\* a pass on a settled snapshot has added replicas and removed none
C39_Witness ==
    /\ pc = "idle"
    /\ trace.finished
    /\ \E i \in 1..Len(calls) :
        calls[i].op = "AddReplicas" /\ calls[i].res = "ok" /\ calls[i].n > 0


\* C40: Configset cleanup gating.  A step of a pass issues DeleteConfigSet(n) only when
\* spec.cleanupEnabled is true, n does not begin with '_' and no ConfigMap of the set
\* is labelled for collection n: with cleanupEnabled false no config set is deleted,
\* and the reserved config set '_checksums' never is.
C40_CleanupGating ==
    [][pc # "idle" =>
        \A i \in (Len(calls) + 1)..Len(calls') :
            calls'[i].op = "DeleteConfigSet" =>
                /\ Deref(cs.spec.CleanupEnabled)
                /\ ~HasPrefix(calls'[i].name, "_")
                /\ calls'[i].name \notin Sources
                /\ calls'[i].name # configChecksumsConfigSetName]_vars

\* a pass with cleanup enabled has deleted a config set of the cluster
C40_Witness ==
    /\ pc = "collections"
    /\ Deref(cs.spec.CleanupEnabled)
    /\ \E i \in 1..Len(calls) :
        /\ calls[i].op = "DeleteConfigSet"
        /\ calls[i].res = "ok"
        /\ calls[i].name = "old"
    /\ engine.configsets = {"_default", configChecksumsConfigSetName, "x"}

====
